---- MODULE Spec2Model ----
(***************************************************************************)
(* book-ai: the section summarization pipeline (BookSummarizer, p-limit    *)
(* fan-out / Promise.all fan-in) and the refinement history engine         *)
(* (SummaryChat).                                                          *)
(***************************************************************************)
EXTENDS Integers, Sequences, FiniteSets, TLC

\* ------------------------------------------------------------------------
\* Bounds
\* ------------------------------------------------------------------------
MaxSections == 2
MaxK == 2
MaxRuns == 2
MaxLog == 3
MaxCalls == 1
MaxSnapshots == 1
MaxTime == 2
MaxLen == 3
MaxBooks == 2
MaxHistory == 8
MaxOverlap == 2

\* ------------------------------------------------------------------------
\* Section summarization pipeline: data
\* ------------------------------------------------------------------------
\* The book of n sections (BookSection.title): titles alternate, so that
\* neighbours differ and sections 1 and 3 share one.
BookOf(n) == [i \in 1..n |-> [title |-> IF i % 2 = 1 THEN "Intro" ELSE "Outro"]]

\* The 13 moderation categories.
Categories ==
    {"sexual", "sexual/minors", "harassment", "harassment/threatening",
     "hate", "hate/threatening", "illicit", "illicit/violent", "self-harm",
     "self-harm/intent", "self-harm/instructions", "violence",
     "violence/graphic"}

\* SectionSummary.moderation when the field is not there.
NoModeration ==
    [present |-> FALSE, flagged |-> FALSE,
     categories |-> [c \in Categories |-> FALSE]]

\* Results the moderation service hands back (ModerationResult).
ModerationOutputs ==
    {[present |-> TRUE, flagged |-> FALSE,
      categories |-> [c \in Categories |-> FALSE]],
     [present |-> TRUE, flagged |-> TRUE,
      categories |-> [c \in Categories |-> c = "hate"]]}

\* A moderation key the generation service put into its own result; the
\* SectionSummary type of the schema can declare one.
ServiceModeration ==
    [present |-> TRUE, flagged |-> TRUE,
     categories |-> [c \in Categories |-> c = "violence"]]

\* Data of a successful translate(): Result<SectionSummary>.data.
NoData == [title |-> "", summary |-> "", moderation |-> NoModeration]
\* Two results of the generation service: one that repeats a title and has
\* the fields asked for, one with a title and a moderation key of its own.
ServiceData ==
    {[title |-> "Intro", summary |-> "text", moderation |-> NoModeration],
     [title |-> "Made up", summary |-> "text", moderation |-> ServiceModeration]}

VARIABLES
    book,              \* BookSummarizer.book.sections: sequence of [title]
    concurrencyLimit,  \* BookSummarizer.concurrencyLimit
    enableModeration,  \* BookSummarizer.enableModeration
    summarizerSummary, \* BookSummarizer.summary: [set, sections]
    runs,              \* number of summarizeSections() calls made so far
    taskState,         \* per section: "none", "queued", "running", "fulfilled", "rejected"
    translateCall,     \* per section: "idle", "pending", "success", "failure", "thrown"
    translateData,     \* per section: data of the translate result
    moderationCall,    \* per section: "idle", "null", "pending", "ok", "thrown"
    moderationData,    \* per section: the moderation result
    sectionResult,     \* per section: value the section's task resolved with
    outcome,           \* of the running summarizeSections call: "none", "pending", "returned", "thrown"
    returned,          \* the BookSummary handed to the caller
    error,             \* the error handed to the caller
    settleOrder,       \* history: the sections in the order their tasks settled
    summaryBefore,     \* history: BookSummarizer.summary when the run started
    chatSummary,       \* SummaryChat.summary
    initialSummary,    \* SummaryChat.initialSummary
    chatHistory,       \* SummaryChat.chatHistory: the array it refers to
    heap,              \* the entries of every ChatHistoryEntry[] array
    snapshots,         \* the ExportedHistory objects the caller holds
    calls,             \* refineSection calls suspended in messages.create
    now,               \* the millisecond new Date() reads
    last,              \* history: the engine operation that completed last
    analyzerInput,     \* SummariesAnalyzer.analyze: the BookSummary it was given
    analyzerCall,      \* "idle", "pending", "returned", "thrown"
    llmResult,         \* analyze: the parsed JSON of the generation service
    aggregatedModeration, \* analyze: the local moderationData
    comprehensive,     \* analyze: the ComprehensiveSummary handed back
    parserRaw,         \* refineSection: response.content[0].text
    parserSection,     \* refineSection: request.section
    parserStage,       \* "idle", "response", "prepared", "parsed", "failed", "repaired"
    parserPrepared,    \* refineSection: preparedResponse
    parserParsed,      \* refineSection: what JSON.parse made of it
    parserRepaired,    \* refineSection: updatedContent after repairResponse
    facadeBook,        \* BookAI.book (and summarizer): the book loaded, 0 for null
    facadeBookSummary, \* BookAI.bookSummary: the book it was made of, 0 for null
    facadeSummary,     \* BookAI.comprehensiveSummary: [set, doc]
    facadeChat,        \* BookAI.summaryChat is not null
    facadeLast         \* history: the facade operation that completed last

pipelineVars ==
    <<book, concurrencyLimit, enableModeration, summarizerSummary, runs,
      taskState, translateCall, translateData, moderationCall, moderationData,
      sectionResult, outcome, returned, error, settleOrder, summaryBefore>>

chatVars ==
    <<chatSummary, initialSummary, chatHistory, heap, snapshots, calls, now,
      last>>

analyzerVars ==
    <<analyzerInput, analyzerCall, llmResult, aggregatedModeration,
      comprehensive>>

parserVars ==
    <<parserRaw, parserSection, parserStage, parserPrepared, parserParsed,
      parserRepaired>>

facadeVars ==
    <<facadeBook, facadeBookSummary, facadeSummary, facadeChat, facadeLast>>

vars == <<pipelineVars, chatVars, analyzerVars, parserVars, facadeVars>>

\* What an operation of one component leaves alone in the other ones.  The
\* facade owns the engine it made: what an operation of the engine means for
\* the facade is said where the operation is called.
otherThanPipeline == <<chatVars, analyzerVars, parserVars, facadeVars>>
otherThanChat == <<pipelineVars, analyzerVars, parserVars>>
otherThanAnalyzer == <<pipelineVars, chatVars, parserVars, facadeVars>>
otherThanParser == <<pipelineVars, chatVars, analyzerVars, facadeVars>>

N == Len(book)
Sections == 1..N

NoSummary == [set |-> FALSE, sections |-> <<>>]
NoError == [section |-> 0, cause |-> "none", message |-> <<>>]
NoResult == [title |-> "", summary |-> "", moderation |-> NoModeration]

\* ------------------------------------------------------------------------
\* Section summarization pipeline: operations
\* ------------------------------------------------------------------------
InFlight == {i \in Sections : taskState[i] = "running"}

\* No call of an earlier run is still out.
Quiescent ==
    /\ outcome # "pending"
    /\ \A i \in Sections :
          /\ taskState[i] \in {"none", "fulfilled", "rejected"}
          /\ translateCall[i] # "pending"
          /\ moderationCall[i] # "pending"

\* Variant: the title of the service's own result is kept.
SectionSummaryKeepsServiceTitle(i, data, moderation) ==
    [title |-> data.title, summary |-> data.summary,
     moderation |-> IF moderation.present THEN moderation ELSE data.moderation]

\* { ...summaryResult.data, title: section.title, ...(moderation && { moderation }) }
SectionSummaryOf(i, data, moderation) ==
    [title |-> book[i].title, summary |-> data.summary,
     moderation |-> IF moderation.present THEN moderation ELSE data.moderation]

\* The message of the error a rejected task of section i carries, in parts:
\* the index is the array index, counted from 0.  What the services say in
\* their own messages is not in the hands of the code.
TaskErrorMessage(i, cause) ==
    CASE cause = "failure" ->
            <<"Failed to summarize section ", ToString(i - 1), ": ",
              "message of the failure result">>
      [] cause = "translate threw" -> <<"message of the thrown error">>
      [] cause = "moderation threw" ->
            <<"Moderation check failed: ", "message of the thrown error">>

\* Variant: every rejection replaces the error the caller is given.
RejectTaskLastErrorWins(i, cause) ==
    /\ taskState' = [taskState EXCEPT ![i] = "rejected"]
    /\ sectionResult' = sectionResult
    /\ settleOrder' = Append(settleOrder, i)
    /\ outcome' = "thrown"
    /\ error' = [section |-> i, cause |-> cause,
                 message |-> <<"Processing failed: ">> \o TaskErrorMessage(i, cause)]
    /\ UNCHANGED <<summarizerSummary, returned>>

\* The task of section i rejects; Promise.all(summaryPromises) rejects with
\* the first rejection and the catch block rethrows it.
RejectTask(i, cause) ==
    /\ taskState' = [taskState EXCEPT ![i] = "rejected"]
    /\ sectionResult' = sectionResult
    /\ settleOrder' = Append(settleOrder, i)
    /\ IF outcome = "pending"
          THEN /\ outcome' = "thrown"
               /\ error' = [section |-> i, cause |-> cause,
                            message |-> <<"Processing failed: ">>
                                        \o TaskErrorMessage(i, cause)]
          ELSE UNCHANGED <<outcome, error>>
    /\ UNCHANGED <<summarizerSummary, returned>>

\* Variant: the run resolves with the first task that resolves.
FulfilTaskResolvesRun(i, s) ==
    LET results == [sectionResult EXCEPT ![i] = s]
    IN  /\ taskState' = [taskState EXCEPT ![i] = "fulfilled"]
        /\ sectionResult' = results
        /\ settleOrder' = Append(settleOrder, i)
        /\ IF outcome = "pending"
              THEN /\ summarizerSummary' = [set |-> TRUE, sections |-> results]
                   /\ returned' = [set |-> TRUE, sections |-> results]
                   /\ outcome' = "returned"
              ELSE UNCHANGED <<summarizerSummary, returned, outcome>>
        /\ UNCHANGED error

\* The task of section i resolves; when it was the last one,
\* Promise.all(summaryPromises) resolves with the results in index order.
FulfilTask(i, s) ==
    LET results == [sectionResult EXCEPT ![i] = s]
        states == [taskState EXCEPT ![i] = "fulfilled"]
    IN  /\ taskState' = states
        /\ sectionResult' = results
        /\ settleOrder' = Append(settleOrder, i)
        /\ IF outcome = "pending" /\ \A j \in Sections : states[j] = "fulfilled"
              THEN /\ summarizerSummary' = [set |-> TRUE, sections |-> results]
                   /\ returned' = [set |-> TRUE, sections |-> results]
                   /\ outcome' = "returned"
              ELSE UNCHANGED <<summarizerSummary, returned, outcome>>
        /\ UNCHANGED error

\* Variant: the success flag of the translate result is not looked at.
ContinuationIgnoresFailure(i, tcall, tdata, mdata) ==
    FulfilTask(i, SectionSummaryOf(i, tdata, mdata))

\* The code after await Promise.all([translate, getModerationResult]).
Continuation(i, tcall, tdata, mdata) ==
    IF tcall = "failure"
       THEN RejectTask(i, "failure")
       ELSE FulfilTask(i, SectionSummaryOf(i, tdata, mdata))

\* summarizeSections(): every section is handed to the limiter.
StartRun ==
    /\ runs < MaxRuns
    /\ Quiescent
    /\ runs' = runs + 1
    /\ taskState' = [i \in Sections |-> "queued"]
    /\ translateCall' = [i \in Sections |-> "idle"]
    /\ translateData' = [i \in Sections |-> NoData]
    /\ moderationCall' = [i \in Sections |-> "idle"]
    /\ moderationData' = [i \in Sections |-> NoModeration]
    /\ sectionResult' = [i \in Sections |-> NoResult]
    /\ error' = NoError
    /\ settleOrder' = <<>>
    /\ summaryBefore' = summarizerSummary
    /\ IF N = 0
          THEN /\ outcome' = "returned"
               /\ summarizerSummary' = [set |-> TRUE, sections |-> <<>>]
               /\ returned' = [set |-> TRUE, sections |-> <<>>]
          ELSE /\ outcome' = "pending"
               /\ returned' = NoSummary
               /\ UNCHANGED summarizerSummary
    /\ UNCHANGED <<book, concurrencyLimit, enableModeration>>
    /\ UNCHANGED otherThanPipeline

\* Variant: one section too many is let in.
AdmitGuardOffByOne(active) == active <= concurrencyLimit

\* p-limit: a queued function starts while activeCount < concurrency.
AdmitGuard(active) == active < concurrencyLimit

\* Variant: the queue hands out any of its sections.
QueueHeadAny(i) == taskState[i] = "queued"

\* p-limit: the queue hands out the section that has waited longest; the
\* sections were put into it in index order by book.sections.map.
QueueHead(i) ==
    /\ taskState[i] = "queued"
    /\ \A j \in Sections : j < i => taskState[j] # "queued"

\* Variant: nothing is started once the run has failed.
AdmitUnlessAborted(i) ==
    /\ i \in Sections
    /\ QueueHead(i)
    /\ outcome # "thrown"
    /\ AdmitGuard(Cardinality(InFlight))
    /\ taskState' = [taskState EXCEPT ![i] = "running"]
    /\ translateCall' = [translateCall EXCEPT ![i] = "pending"]
    /\ moderationCall' = [moderationCall EXCEPT ![i] =
                             IF enableModeration THEN "pending" ELSE "null"]
    /\ UNCHANGED <<book, concurrencyLimit, enableModeration, summarizerSummary,
                   runs, translateData, moderationData, sectionResult, outcome,
                   returned, error, settleOrder, summaryBefore>>
    /\ UNCHANGED otherThanPipeline

\* The limiter starts the next queued section: both calls are issued.
Admit(i) ==
    /\ i \in Sections
    /\ QueueHead(i)
    /\ AdmitGuard(Cardinality(InFlight))
    /\ taskState' = [taskState EXCEPT ![i] = "running"]
    /\ translateCall' = [translateCall EXCEPT ![i] = "pending"]
    /\ moderationCall' = [moderationCall EXCEPT ![i] =
                             IF enableModeration THEN "pending" ELSE "null"]
    /\ UNCHANGED <<book, concurrencyLimit, enableModeration, summarizerSummary,
                   runs, translateData, moderationData, sectionResult, outcome,
                   returned, error, settleOrder, summaryBefore>>
    /\ UNCHANGED otherThanPipeline

\* translate() resolves with a success or a failure Result.
TranslateReturns(i, success, data) ==
    /\ i \in Sections
    /\ translateCall[i] = "pending"
    /\ LET tcall == IF success THEN "success" ELSE "failure"
           tdata == IF success THEN data ELSE NoData
       IN  /\ translateCall' = [translateCall EXCEPT ![i] = tcall]
           /\ translateData' = [translateData EXCEPT ![i] = tdata]
           /\ IF taskState[i] = "running" /\ moderationCall[i] \in {"null", "ok"}
                 THEN Continuation(i, tcall, tdata, moderationData[i])
                 ELSE UNCHANGED <<taskState, sectionResult, outcome, error,
                                  summarizerSummary, returned, settleOrder>>
    /\ UNCHANGED <<book, concurrencyLimit, enableModeration, runs,
                   moderationCall, moderationData, summaryBefore>>
    /\ UNCHANGED otherThanPipeline

\* translate() rejects.
TranslateThrows(i) ==
    /\ i \in Sections
    /\ translateCall[i] = "pending"
    /\ translateCall' = [translateCall EXCEPT ![i] = "thrown"]
    /\ IF taskState[i] = "running"
          THEN RejectTask(i, "translate threw")
          ELSE UNCHANGED <<taskState, sectionResult, outcome, error,
                           summarizerSummary, returned, settleOrder>>
    /\ UNCHANGED <<book, concurrencyLimit, enableModeration, runs,
                   translateData, moderationCall, moderationData, summaryBefore>>
    /\ UNCHANGED otherThanPipeline

\* getModerationResult() resolves with the service's result.
ModerationReturns(i, m) ==
    /\ i \in Sections
    /\ moderationCall[i] = "pending"
    /\ moderationCall' = [moderationCall EXCEPT ![i] = "ok"]
    /\ moderationData' = [moderationData EXCEPT ![i] = m]
    /\ IF taskState[i] = "running" /\ translateCall[i] \in {"success", "failure"}
          THEN Continuation(i, translateCall[i], translateData[i], m)
          ELSE UNCHANGED <<taskState, sectionResult, outcome, error,
                           summarizerSummary, returned, settleOrder>>
    /\ UNCHANGED <<book, concurrencyLimit, enableModeration, runs,
                   translateCall, translateData, summaryBefore>>
    /\ UNCHANGED otherThanPipeline

\* Variant: a failed moderation check is swallowed and gives null.
ModerationThrowsIsSkipped(i) ==
    /\ i \in Sections
    /\ moderationCall[i] = "pending"
    /\ moderationCall' = [moderationCall EXCEPT ![i] = "null"]
    /\ IF taskState[i] = "running" /\ translateCall[i] \in {"success", "failure"}
          THEN Continuation(i, translateCall[i], translateData[i], NoModeration)
          ELSE UNCHANGED <<taskState, sectionResult, outcome, error,
                           summarizerSummary, returned, settleOrder>>
    /\ UNCHANGED <<book, concurrencyLimit, enableModeration, runs,
                   translateCall, translateData, moderationData, summaryBefore>>
    /\ UNCHANGED otherThanPipeline

\* getModerationResult() rejects: "Moderation check failed".
ModerationThrows(i) ==
    /\ i \in Sections
    /\ moderationCall[i] = "pending"
    /\ moderationCall' = [moderationCall EXCEPT ![i] = "thrown"]
    /\ IF taskState[i] = "running"
          THEN RejectTask(i, "moderation threw")
          ELSE UNCHANGED <<taskState, sectionResult, outcome, error,
                           summarizerSummary, returned, settleOrder>>
    /\ UNCHANGED <<book, concurrencyLimit, enableModeration, runs,
                   translateCall, translateData, moderationData, summaryBefore>>
    /\ UNCHANGED otherThanPipeline

\* ------------------------------------------------------------------------
\* Text and JSON values
\* ------------------------------------------------------------------------
\* A text is a sequence of characters.  A JSON value is a record of one
\* shape: t is its type, s the characters of a string, n a number, b a
\* boolean, items the elements of an array or the member values of an object,
\* keys the member names of an object.
JValue(t, s, n, b, keys, items) ==
    [t |-> t, s |-> s, n |-> n, b |-> b, keys |-> keys, items |-> items]

JStr(s) == JValue("str", s, 0, FALSE, <<>>, <<>>)
JNum(n) == JValue("num", <<>>, n, FALSE, <<>>, <<>>)
JBool(b) == JValue("bool", <<>>, 0, b, <<>>, <<>>)
JNull == JValue("null", <<>>, 0, FALSE, <<>>, <<>>)
JArr(items) == JValue("arr", <<>>, 0, FALSE, <<>>, items)
JObj(keys, items) == JValue("obj", <<>>, 0, FALSE, keys, items)
\* What reading a property that is not there gives.
JUndefined == JValue("undefined", <<>>, 0, FALSE, <<>>, <<>>)

\* The backquote character (a string of the module cannot hold one).
BackTick == "<backquote>"

WhiteSpace == {" ", "\n", "\t", "\r"}
\* What String.prototype.trim strips.
TrimChars == WhiteSpace \cup {"\f"}
ControlChars == {"\n", "\t", "\r", "\f"}
Digits == <<"0", "1", "2", "3", "4", "5", "6", "7", "8", "9">>
DigitChars == {Digits[d] : d \in 1..10}
DigitValue(c) == (CHOOSE d \in 1..10 : Digits[d] = c) - 1

Drop(text, n) == SubSeq(text, n + 1, Len(text))

\* String.prototype.startsWith / endsWith
StartsWith(text, prefix) ==
    /\ Len(text) >= Len(prefix)
    /\ SubSeq(text, 1, Len(prefix)) = prefix

EndsWith(text, suffix) ==
    /\ Len(text) >= Len(suffix)
    /\ SubSeq(text, Len(text) - Len(suffix) + 1, Len(text)) = suffix

\* JSON white space between tokens.
RECURSIVE TrimStart(_)
TrimStart(text) ==
    IF text # <<>> /\ Head(text) \in WhiteSpace THEN TrimStart(Tail(text))
    ELSE text

RECURSIVE StripStart(_)
StripStart(text) ==
    IF text # <<>> /\ Head(text) \in TrimChars THEN StripStart(Tail(text))
    ELSE text

RECURSIVE StripEnd(_)
StripEnd(text) ==
    IF text # <<>> /\ text[Len(text)] \in TrimChars
       THEN StripEnd(SubSeq(text, 1, Len(text) - 1))
       ELSE text

\* String.prototype.trim
Trim(text) == StripEnd(StripStart(text))

\* ------------------------------------------------------------------------
\* JSON.parse.  Escapes \b and \uXXXX and numbers with a fraction or an
\* exponent are outside the texts of this model.
\* ------------------------------------------------------------------------
ParseFail == [ok |-> FALSE, val |-> JUndefined, rest |-> <<>>]
ParseOk(val, rest) == [ok |-> TRUE, val |-> val, rest |-> rest]

Escapes == <<"\"", "\\", "/", "n", "t", "r", "f">>
Escaped == <<"\"", "\\", "/", "\n", "\t", "\r", "\f">>
EscapeChars == {Escapes[e] : e \in 1..7}
Unescape(c) == Escaped[CHOOSE e \in 1..7 : Escapes[e] = c]

\* The characters of a string literal, after the opening quote.
RECURSIVE ParseStringBody(_, _)
ParseStringBody(text, acc) ==
    IF text = <<>> THEN ParseFail
    ELSE IF Head(text) = "\"" THEN ParseOk(JStr(acc), Tail(text))
    ELSE IF Head(text) = "\\"
         THEN IF Len(text) >= 2 /\ text[2] \in EscapeChars
                 THEN ParseStringBody(Drop(text, 2), Append(acc, Unescape(text[2])))
                 ELSE ParseFail
    ELSE IF Head(text) \in ControlChars THEN ParseFail
    ELSE ParseStringBody(Tail(text), Append(acc, Head(text)))

RECURSIVE ParseDigits(_, _)
ParseDigits(text, acc) ==
    IF text # <<>> /\ Head(text) \in DigitChars
       THEN ParseDigits(Tail(text), 10 * acc + DigitValue(Head(text)))
       ELSE ParseOk(JNum(acc), text)

\* -? ( 0 | [1-9][0-9]* )
ParseNumber(text) ==
    LET neg == text # <<>> /\ Head(text) = "-"
        body == IF neg THEN Tail(text) ELSE text
        digits == IF body = <<>> \/ Head(body) \notin DigitChars THEN ParseFail
                  ELSE IF Head(body) = "0" THEN ParseOk(JNum(0), Tail(body))
                  ELSE ParseDigits(body, 0)
    IN  IF ~digits.ok THEN ParseFail
        ELSE IF digits.rest # <<>> /\ Head(digits.rest) \in {".", "e", "E"}
             THEN ParseFail
        ELSE IF neg THEN ParseOk(JNum(0 - digits.val.n), digits.rest)
        ELSE digits

\* An object member set by name: a repeated name keeps its place and takes
\* the later value.
PutMember(obj, key, val) ==
    IF \E k \in 1..Len(obj.keys) : obj.keys[k] = key
       THEN LET k == CHOOSE k \in 1..Len(obj.keys) : obj.keys[k] = key
            IN  JObj(obj.keys, [obj.items EXCEPT ![k] = val])
       ELSE JObj(Append(obj.keys, key), Append(obj.items, val))

RECURSIVE ParseValue(_)
RECURSIVE ParseElements(_, _)
RECURSIVE ParseMembers(_, _)

\* value ws ( "," ws elements | "]" ), text standing at a value
ParseElements(text, acc) ==
    LET v == ParseValue(text)
        after == IF v.ok THEN TrimStart(v.rest) ELSE <<>>
    IN  IF ~v.ok \/ after = <<>> THEN ParseFail
        ELSE IF Head(after) = "]"
             THEN ParseOk(JArr(Append(acc, v.val)), Tail(after))
        ELSE IF Head(after) = ","
             THEN ParseElements(TrimStart(Tail(after)), Append(acc, v.val))
        ELSE ParseFail

\* string ws ":" ws value ws ( "," ws members | "}" ), text standing at a name
ParseMembers(text, acc) ==
    IF text = <<>> \/ Head(text) # "\"" THEN ParseFail
    ELSE LET key == ParseStringBody(Tail(text), <<>>)
             colon == IF key.ok THEN TrimStart(key.rest) ELSE <<>>
         IN  IF ~key.ok \/ colon = <<>> \/ Head(colon) # ":" THEN ParseFail
             ELSE LET v == ParseValue(TrimStart(Tail(colon)))
                      after == IF v.ok THEN TrimStart(v.rest) ELSE <<>>
                      obj == PutMember(acc, key.val.s, v.val)
                  IN  IF ~v.ok \/ after = <<>> THEN ParseFail
                      ELSE IF Head(after) = "}" THEN ParseOk(obj, Tail(after))
                      ELSE IF Head(after) = ","
                           THEN ParseMembers(TrimStart(Tail(after)), obj)
                      ELSE ParseFail

\* One JSON value at the head of the text (leading white space skipped by
\* the caller).
ParseValue(text) ==
    IF text = <<>> THEN ParseFail
    ELSE IF Head(text) = "\"" THEN ParseStringBody(Tail(text), <<>>)
    ELSE IF Head(text) = "["
         THEN LET inner == TrimStart(Tail(text))
              IN  IF inner # <<>> /\ Head(inner) = "]"
                     THEN ParseOk(JArr(<<>>), Tail(inner))
                     ELSE ParseElements(inner, <<>>)
    ELSE IF Head(text) = "{"
         THEN LET inner == TrimStart(Tail(text))
              IN  IF inner # <<>> /\ Head(inner) = "}"
                     THEN ParseOk(JObj(<<>>, <<>>), Tail(inner))
                     ELSE ParseMembers(inner, JObj(<<>>, <<>>))
    ELSE IF StartsWith(text, <<"t", "r", "u", "e">>)
         THEN ParseOk(JBool(TRUE), Drop(text, 4))
    ELSE IF StartsWith(text, <<"f", "a", "l", "s", "e">>)
         THEN ParseOk(JBool(FALSE), Drop(text, 5))
    ELSE IF StartsWith(text, <<"n", "u", "l", "l">>)
         THEN ParseOk(JNull, Drop(text, 4))
    ELSE ParseNumber(text)

\* JSON.parse(text): ok is FALSE where JSON.parse throws a SyntaxError.
JSONParse(text) ==
    LET v == ParseValue(TrimStart(text))
    IN  IF v.ok /\ TrimStart(v.rest) = <<>> THEN ParseOk(v.val, <<>>)
        ELSE ParseFail

\* ------------------------------------------------------------------------
\* Refinement history engine (SummaryChat): data
\* ------------------------------------------------------------------------
\* keyof ComprehensiveSummary
Fields ==
    {"summary", "writingStyle", "quality", "keywords", "genres",
     "marketingCopy", "comparableAuthors", "flagged", "moderationCategories"}

\* The name of a field as the characters of a template literal.
FieldText(f) ==
    CASE f = "summary" -> <<"s", "u", "m", "m", "a", "r", "y">>
      [] f = "writingStyle" -> <<"w", "r", "i", "t", "i", "n", "g", "S", "t", "y", "l", "e">>
      [] f = "quality" -> <<"q", "u", "a", "l", "i", "t", "y">>
      [] f = "keywords" -> <<"k", "e", "y", "w", "o", "r", "d", "s">>
      [] f = "genres" -> <<"g", "e", "n", "r", "e", "s">>
      [] f = "marketingCopy" -> <<"m", "a", "r", "k", "e", "t", "i", "n", "g", "C", "o", "p", "y">>
      [] f = "comparableAuthors" -> <<"c", "o", "m", "p", "a", "r", "a", "b", "l", "e", "A", "u", "t", "h", "o", "r", "s">>
      [] f = "flagged" -> <<"f", "l", "a", "g", "g", "e", "d">>
      [] f = "moderationCategories" -> <<"m", "o", "d", "e", "r", "a", "t", "i", "o", "n", "C", "a", "t", "e", "g", "o", "r", "i", "e", "s">>

\* The categories in the order of the ModerationCategories interface.
CategoryList ==
    <<"sexual",
      "sexual/minors",
      "harassment",
      "harassment/threatening",
      "hate",
      "hate/threatening",
      "illicit",
      "illicit/violent",
      "self-harm",
      "self-harm/intent",
      "self-harm/instructions",
      "violence",
      "violence/graphic">>

CategoryText(c) ==
    CASE c = "sexual" -> <<"s", "e", "x", "u", "a", "l">>
      [] c = "sexual/minors" -> <<"s", "e", "x", "u", "a", "l", "/", "m", "i", "n", "o", "r", "s">>
      [] c = "harassment" -> <<"h", "a", "r", "a", "s", "s", "m", "e", "n", "t">>
      [] c = "harassment/threatening" -> <<"h", "a", "r", "a", "s", "s", "m", "e", "n", "t", "/", "t", "h", "r", "e", "a", "t", "e", "n", "i", "n", "g">>
      [] c = "hate" -> <<"h", "a", "t", "e">>
      [] c = "hate/threatening" -> <<"h", "a", "t", "e", "/", "t", "h", "r", "e", "a", "t", "e", "n", "i", "n", "g">>
      [] c = "illicit" -> <<"i", "l", "l", "i", "c", "i", "t">>
      [] c = "illicit/violent" -> <<"i", "l", "l", "i", "c", "i", "t", "/", "v", "i", "o", "l", "e", "n", "t">>
      [] c = "self-harm" -> <<"s", "e", "l", "f", "-", "h", "a", "r", "m">>
      [] c = "self-harm/intent" -> <<"s", "e", "l", "f", "-", "h", "a", "r", "m", "/", "i", "n", "t", "e", "n", "t">>
      [] c = "self-harm/instructions" -> <<"s", "e", "l", "f", "-", "h", "a", "r", "m", "/", "i", "n", "s", "t", "r", "u", "c", "t", "i", "o", "n", "s">>
      [] c = "violence" -> <<"v", "i", "o", "l", "e", "n", "c", "e">>
      [] c = "violence/graphic" -> <<"v", "i", "o", "l", "e", "n", "c", "e", "/", "g", "r", "a", "p", "h", "i", "c">>
      [] c = "spam" -> <<"s", "p", "a", "m">>

\* A ModerationCategories mapping as the object stored in a summary.
CategoriesValue(cats) ==
    JObj([k \in 1..13 |-> CategoryText(CategoryList[k])],
         [k \in 1..13 |-> JBool(cats[CategoryList[k]])])

\* SummaryChat.HISTORY_VERSION
HISTORY_VERSION == "1.0"

\* Sections a caller asks to refine, and the instructions given.
RefinedSections == {"summary", "keywords"}
Instructions == {"make it shorter"}

\* The document the engine is constructed with.
AnalyzedSummary ==
    [f \in Fields |->
        CASE f = "summary" -> JStr(<<"o", "l", "d">>)
          [] f = "writingStyle" -> JStr(<<"d", "r", "y">>)
          [] f = "quality" -> JNull
          [] f = "keywords" -> JArr(<<JStr(<<"k">>)>>)
          [] f = "genres" -> JArr(<<JStr(<<"g">>)>>)
          [] f = "marketingCopy" -> JStr(<<"b", "u", "y">>)
          [] f = "comparableAuthors" -> JArr(<<>>)
          [] f = "flagged" -> JBool(FALSE)
          [] f = "moderationCategories" ->
                CategoriesValue([c \in Categories |-> FALSE])]

InitialSummaries == {AnalyzedSummary}

\* Texts the generation service answers a refinement request with.
\*   {"summary":"new"}
ResponseKeyed == <<"{", "\"", "s", "u", "m", "m", "a", "r", "y", "\"", ":", "\"", "n", "e", "w", "\"", "}">>
\*   a json code fence around ["a"], each on a line of its own
ResponseFencedArray == <<BackTick, BackTick, BackTick, "j", "s", "o", "n", "\n", "[", "\"", "a", "\"", "]", "\n", BackTick, BackTick, BackTick>>
\*   {oops
ResponseBroken == <<"{", "o", "o", "p", "s">>

Responses == {ResponseKeyed, ResponseFencedArray, ResponseBroken}

\* Sections a ChatRequest can name besides the text fields: section is any
\* keyof ComprehensiveSummary.
RequestSections == {"keywords", "flagged", "moderationCategories"}

\* Parseable texts that are neither a string nor a list of strings.
\*   7
ResponseNumber == <<"7">>
\*   ["a","b"]
ResponseList == <<"[", "\"", "a", "\"", ",", "\"", "b", "\"", "]">>
\*   foo bar
ResponseText == <<"f", "o", "o", " ", "b", "a", "r">>

\* Every text of up to MaxLen characters over an alphabet that has what the
\* repair looks at: a letter, white space, the quote, the backslash, the
\* brackets, the braces and a digit.
Alphabet == {"a", " ", "\n", "\"", "\\", "[", "]", "{", "}", "7"}
ShortTexts == UNION {[1..n -> Alphabet] : n \in 0..MaxLen}
RawTexts ==
    ShortTexts \cup {ResponseKeyed, ResponseFencedArray, ResponseBroken,
                     ResponseNumber, ResponseList, ResponseText}
ServiceTexts == {ResponseKeyed, ResponseNumber}

\* One ChatHistoryEntry.
Entry(timestamp, section, instruction, previousContent, updatedContent) ==
    [timestamp |-> timestamp, section |-> section, instruction |-> instruction,
     previousContent |-> previousContent, updatedContent |-> updatedContent]

\* Snapshots a caller can bring in from elsewhere (an ExportedHistory read
\* from a file): a well-formed one, one without entries, one of another
\* version, and three with a required field missing.  history holds the
\* entries; the array is allocated when the caller loads the snapshot.
ForeignSummary == [AnalyzedSummary EXCEPT !["summary"] = JStr(<<"f", "a", "r">>)]
ForeignEntry ==
    Entry(0, "summary", "make it shorter", JStr(<<"f", "a", "r">>),
          JStr(<<"f">>))
ForeignCurrent == [ForeignSummary EXCEPT !["summary"] = JStr(<<"f">>)]

ForeignExport(version, hasInitial, hasHistory, hasCurrent, history, current) ==
    [version |-> version, timestamp |-> 0,
     hasInitial |-> hasInitial, initialSummary |-> ForeignSummary,
     hasHistory |-> hasHistory, history |-> history,
     hasCurrent |-> hasCurrent, currentSummary |-> current]

ForeignSnapshots ==
    {ForeignExport("1.0", TRUE, TRUE, TRUE, <<ForeignEntry>>, ForeignCurrent),
     ForeignExport("1.0", TRUE, TRUE, TRUE, <<>>, ForeignSummary),
     ForeignExport("0.9", TRUE, TRUE, TRUE, <<ForeignEntry>>, ForeignCurrent),
     ForeignExport("1.0", FALSE, TRUE, TRUE, <<ForeignEntry>>, ForeignCurrent),
     ForeignExport("1.0", TRUE, FALSE, TRUE, <<>>, ForeignCurrent),
     ForeignExport("1.0", TRUE, TRUE, FALSE, <<ForeignEntry>>, ForeignCurrent)}

\* ------------------------------------------------------------------------
\* Refinement history engine: response repair
\* ------------------------------------------------------------------------
FenceJson == <<BackTick, BackTick, BackTick, "j", "s", "o", "n">>
Fence == <<BackTick, BackTick, BackTick>>

\* rawResponse.replace(/(3 backquotes)json\n?|\n?(3 backquotes)/g, '')
RECURSIVE StripFences(_)
StripFences(text) ==
    IF text = <<>> THEN <<>>
    ELSE IF StartsWith(text, FenceJson)
         THEN LET rest == Drop(text, 7)
              IN  StripFences(IF rest # <<>> /\ Head(rest) = "\n"
                                 THEN Tail(rest) ELSE rest)
    ELSE IF StartsWith(text, <<"\n">> \o Fence) THEN StripFences(Drop(text, 4))
    ELSE IF StartsWith(text, Fence) THEN StripFences(Drop(text, 3))
    ELSE <<Head(text)>> \o StripFences(Tail(text))

\* cleaned.replace(/"/g, '\\"')
RECURSIVE EscapeQuotes(_)
EscapeQuotes(text) ==
    IF text = <<>> THEN <<>>
    ELSE IF Head(text) = "\"" THEN <<"\\", "\"">> \o EscapeQuotes(Tail(text))
    ELSE <<Head(text)>> \o EscapeQuotes(Tail(text))

\* The template {"${section}":${cleaned}}
WrapValue(section, cleaned) ==
    <<"{", "\"">> \o FieldText(section) \o <<"\"", ":">> \o cleaned \o <<"}">>

\* The template {"${section}":"${escaped}"}
WrapText(section, escaped) ==
    WrapValue(section, <<"\"">> \o escaped \o <<"\"">>)

\* Variant: the text is cleaned and wrapped without trying it as it is.
prepareWithoutFirstTry(rawResponse, section) ==
    LET cleaned == Trim(StripFences(rawResponse))
    IN  IF StartsWith(cleaned, <<"\"">>) /\ EndsWith(cleaned, <<"\"">>)
           THEN WrapValue(section, cleaned)
        ELSE IF ~StartsWith(cleaned, <<"{">>) /\ ~StartsWith(cleaned, <<"[">>)
           THEN WrapText(section, EscapeQuotes(cleaned))
        ELSE IF StartsWith(cleaned, <<"[">>) /\ EndsWith(cleaned, <<"]">>)
           THEN WrapValue(section, cleaned)
        ELSE cleaned

prepareResponseForParsing(rawResponse, section) ==
    IF JSONParse(rawResponse).ok THEN rawResponse
    ELSE LET cleaned == Trim(StripFences(rawResponse))
         IN  IF StartsWith(cleaned, <<"\"">>) /\ EndsWith(cleaned, <<"\"">>)
                THEN WrapValue(section, cleaned)
             ELSE IF ~StartsWith(cleaned, <<"{">>) /\ ~StartsWith(cleaned, <<"[">>)
                THEN WrapText(section, EscapeQuotes(cleaned))
             ELSE IF StartsWith(cleaned, <<"[">>) /\ EndsWith(cleaned, <<"]">>)
                THEN WrapValue(section, cleaned)
             ELSE cleaned

\* value[name] for a parsed value: undefined when there is no such member.
\* Field names are never array indices or properties of a number, a boolean
\* or an array.
Prop(value, name) ==
    IF value.t = "obj" /\ \E k \in 1..Len(value.keys) : value.keys[k] = name
       THEN value.items[CHOOSE k \in 1..Len(value.keys) : value.keys[k] = name]
       ELSE JUndefined

\* What an if (...) takes as true.
Truthy(value) ==
    CASE value.t = "str" -> value.s # <<>>
      [] value.t = "num" -> value.n # 0
      [] value.t = "bool" -> value.b
      [] value.t \in {"null", "undefined"} -> FALSE
      [] OTHER -> TRUE

\* Object.keys(value).length
KeyCount(value) == IF value.t = "obj" THEN Len(value.keys) ELSE 0

repairResponse(response, section) ==
    IF response.t \in {"str", "arr"} THEN response
    \* null[section] throws a TypeError; the catch returns the response
    ELSE IF response.t = "null" THEN response
    ELSE LET inner == Prop(response, FieldText(section))
         IN  IF Truthy(inner)
                THEN IF inner.t \in {"obj", "arr"}
                          /\ Truthy(Prop(inner, FieldText(section)))
                        THEN Prop(inner, FieldText(section))
                        ELSE inner
             ELSE IF KeyCount(response) = 1 THEN response.items[1]
             ELSE response

\* What refineSection stores for a response text: prepared, parsed, repaired.
\* Defined where JSON.parse of the prepared text does not throw.
StoredFor(rawResponse, section) ==
    repairResponse(JSONParse(prepareResponseForParsing(rawResponse, section)).val,
                   section)

\* ------------------------------------------------------------------------
\* Responses with a structure: objects keyed by a field, nested once or
\* twice, alone or beside another member; and JSON values inside a Markdown
\* code fence
\* ------------------------------------------------------------------------
\* JSON texts of values an if (...) takes as false: "", false, 0, null
FalsyTexts ==
    {<<"\"", "\"">>, <<"f", "a", "l", "s", "e">>, <<"0">>, <<"n", "u", "l", "l">>}
\* and of values it takes as true: "new", ["a"]
TruthyTexts == {<<"\"", "n", "e", "w", "\"">>, <<"[", "\"", "a", "\"", "]">>}
ValueTexts == FalsyTexts \cup TruthyTexts

\* {"<section>":<value>,"a":7}
WrapBeside(section, value) ==
    <<"{", "\"">> \o FieldText(section) \o <<"\"", ":">> \o value
        \o <<",", "\"", "a", "\"", ":", "7", "}">>

\* {"a":<value>}
WrapUnderOther(value) == <<"{", "\"", "a", "\"", ":">> \o value \o <<"}">>

StructuredTexts ==
    UNION {{WrapValue(f, v), WrapBeside(f, v), WrapValue(f, WrapValue(f, v)),
            WrapValue(f, WrapBeside(f, v)), WrapUnderOther(v),
            WrapBeside(f, WrapUnderOther(v))} :
              f \in RefinedSections, v \in ValueTexts}

\* A quoted string that has three backquotes in it: "a(3 backquotes)b"
QuotedWithFence == <<"\"", "a">> \o Fence \o <<"b", "\"">>

\* Valid JSON values a response consists of: an object keyed by a field, an
\* array, a quoted string.
JsonTexts ==
    {WrapValue(f, v) : f \in RefinedSections, v \in TruthyTexts}
        \cup {<<"[", "\"", "a", "\"", "]">>, <<"[", "]">>,
              <<"\"", "n", "e", "w", "\"">>, <<"\"", "\"">>, QuotedWithFence}

\* The ways a service puts a value into a code fence.
Wrappers ==
    {"json fence", "plain fence", "json fence in spaces",
     "json fence in white space"}
Fenced(w, json) ==
    CASE w = "json fence" -> FenceJson \o <<"\n">> \o json \o <<"\n">> \o Fence
      [] w = "plain fence" -> Fence \o <<"\n">> \o json \o <<"\n">> \o Fence
      [] w = "json fence in spaces" ->
            <<" ", " ">> \o FenceJson \o <<"\n">> \o json \o <<"\n">> \o Fence
                \o <<" ", "\n">>
      [] w = "json fence in white space" ->
            <<" ", "\n">> \o FenceJson \o <<"\n">> \o json \o <<"\n">> \o Fence
                \o <<" ", "\n">>
FencedTexts == {Fenced(w, json) : w \in Wrappers, json \in JsonTexts}

\* The response texts the three steps are taken with.
ParserTexts == RawTexts \cup StructuredTexts \cup FencedTexts

\* ------------------------------------------------------------------------
\* Refinement history engine: the three steps refineSection takes with the
\* text of a response, one at a time
\* ------------------------------------------------------------------------
\* const preparedResponse = this.prepareResponseForParsing(text, request.section)
PrepareStep ==
    /\ parserStage = "response"
    /\ parserPrepared' = prepareResponseForParsing(parserRaw, parserSection)
    /\ parserStage' = "prepared"
    /\ UNCHANGED <<parserRaw, parserSection, parserParsed, parserRepaired>>
    /\ UNCHANGED otherThanParser

\* updatedContent = JSON.parse(preparedResponse), or the throw of the catch
ParseStep ==
    /\ parserStage = "prepared"
    /\ parserParsed' = JSONParse(parserPrepared)
    /\ parserStage' = IF parserParsed'.ok THEN "parsed" ELSE "failed"
    /\ UNCHANGED <<parserRaw, parserSection, parserPrepared, parserRepaired>>
    /\ UNCHANGED otherThanParser

\* updatedContent = this.repairResponse(updatedContent, request.section)
RepairStep ==
    /\ parserStage = "parsed"
    /\ parserRepaired' = repairResponse(parserParsed.val, parserSection)
    /\ parserStage' = "repaired"
    /\ UNCHANGED <<parserRaw, parserSection, parserPrepared, parserParsed>>
    /\ UNCHANGED otherThanParser

\* No response at hand.
IdleParser ==
    /\ parserRaw = <<>>
    /\ parserSection = "summary"
    /\ parserStage = "idle"
    /\ parserPrepared = <<>>
    /\ parserParsed = ParseFail
    /\ parserRepaired = JUndefined

\* A response has come in for a request.
ResponseAtHand ==
    /\ parserRaw \in ParserTexts
    /\ parserSection \in RefinedSections
    /\ parserStage = "response"
    /\ parserPrepared = <<>>
    /\ parserParsed = ParseFail
    /\ parserRepaired = JUndefined

NextParser == PrepareStep \/ ParseStep \/ RepairStep

\* ------------------------------------------------------------------------
\* Refinement history engine: operations
\* ------------------------------------------------------------------------
\* The entries of the engine's log.
Log == heap[chatHistory]

ArrayIds == 1..(MaxSnapshots + 2)

\* The arrays the caller's snapshots refer to.
HeldArrays(snaps) ==
    {snaps[i].history : i \in {j \in 1..Len(snaps) : snaps[j].hasHistory}}

\* An array nobody refers to any more has no entries.
Collect(h, live) == [a \in ArrayIds |-> IF a \in live THEN h[a] ELSE <<>>]

\* The place of a newly created array.
NewArray(inUse) == CHOOSE a \in ArrayIds \ inUse : \A b \in ArrayIds \ inUse : a <= b

RemoveAt(seq, i) == SubSeq(seq, 1, i - 1) \o SubSeq(seq, i + 1, Len(seq))

\* The loop of revertToTimestamp: updatedContent of every entry written into
\* its section, in log order.
RECURSIVE Replay(_, _)
Replay(summary, entries) ==
    IF entries = <<>> THEN summary
    ELSE Replay([summary EXCEPT ![Head(entries).section] = Head(entries).updatedContent],
                Tail(entries))

\* Variant: a timestamp that is not there stands for the last entry.
FindIndexFallsBackToLast(entries, timestamp) ==
    IF \E k \in 1..Len(entries) : entries[k].timestamp = timestamp
       THEN CHOOSE k \in 1..Len(entries) :
               /\ entries[k].timestamp = timestamp
               /\ \A j \in 1..(k - 1) : entries[j].timestamp # timestamp
       ELSE Len(entries)

\* chatHistory.findIndex(entry => entry.timestamp === timestamp), 0 for -1
FindIndex(entries, timestamp) ==
    IF \E k \in 1..Len(entries) : entries[k].timestamp = timestamp
       THEN CHOOSE k \in 1..Len(entries) :
               /\ entries[k].timestamp = timestamp
               /\ \A j \in 1..(k - 1) : entries[j].timestamp # timestamp
       ELSE 0

\* What an operation that returns no document, or throws, hands back.
NoDocument == [f \in Fields |-> JUndefined]

\* op: the operation, ok: whether it returned (FALSE: it threw), ts: the
\* timestamp it was given or wrote, source: where an imported snapshot came
\* from, or where a failed refinement failed.
Done(op, ok, ts, source) ==
    [op |-> op, ok |-> ok, ts |-> ts, source |-> source, message |-> <<>>,
     returned |-> NoDocument]

\* The operation returned this document.
Returns(op, ts, source, summary) ==
    [Done(op, TRUE, ts, source) EXCEPT !.returned = summary]

\* The operation threw an Error with this message, given in parts.
Thrown(op, ts, source, message) ==
    [op |-> op, ok |-> FALSE, ts |-> ts, source |-> source, message |-> message,
     returned |-> NoDocument]

\* throw new Error('Failed to parse response: ' + error), rethrown by the
\* catch of refineSection.  The SyntaxError's own text is JSON.parse's.
ParseErrorMessage ==
    <<"Failed to refine summary: ", "Failed to parse response: ",
      "message of the SyntaxError">>

\* The catch of refineSection around an error of messages.create.
ApiErrorMessage ==
    <<"Failed to refine summary: ", "message of the thrown error">>

EngineState == [summary |-> chatSummary, log |-> Log, initial |-> initialSummary]

\* The model's room for one more call: the log with the pending calls stays
\* within maxLog entries, the pending calls within maxCalls.
Room(maxLog, maxCalls) ==
    /\ Len(Log) + Len(calls) < maxLog
    /\ Len(calls) < maxCalls

\* Array.prototype.slice(-n): the last n elements, as a new array.
LastN(seq, n) ==
    IF Len(seq) <= n THEN seq ELSE SubSeq(seq, Len(seq) - n + 1, Len(seq))

\* Array.prototype.sort((a, b) => time(a) - time(b)): stable, so entries of
\* one timestamp keep the order they had.
RECURSIVE SortByTimestamp(_)
SortByTimestamp(entries) ==
    IF entries = <<>> THEN <<>>
    ELSE LET first == CHOOSE t \in {entries[k].timestamp : k \in 1..Len(entries)} :
                         \A k \in 1..Len(entries) : t <= entries[k].timestamp
             isFirst(e) == e.timestamp = first
             isLater(e) == e.timestamp # first
         IN  SelectSeq(entries, isFirst) \o SortByTimestamp(SelectSeq(entries, isLater))

\* Variant: the oldest entries of each kind are taken.
getRelevantHistoryTakesOldest(section) ==
    LET same(e) == e.section = section
        other(e) == e.section # section
        firstN(seq, n) == IF Len(seq) <= n THEN seq ELSE SubSeq(seq, 1, n)
        sectionHistory == firstN(SelectSeq(Log, same), 2)
        recentHistory == firstN(SelectSeq(Log, other), 3)
    IN  SortByTimestamp(sectionHistory \o recentHistory)

\* getRelevantHistory(section): filter and slice make new arrays, and it is
\* the new array [...sectionHistory, ...recentHistory] that is sorted.
getRelevantHistory(section) ==
    LET same(e) == e.section = section
        other(e) == e.section # section
        sectionHistory == LastN(SelectSeq(Log, same), 2)
        recentHistory == LastN(SelectSeq(Log, other), 3)
    IN  SortByTimestamp(sectionHistory \o recentHistory)

\* Variant: the content read is that of the initial document.
RefineStartReadsInitial(section, instruction) ==
    /\ calls' = Append(calls, [section |-> section, instruction |-> instruction,
                               currentContent |-> initialSummary[section],
                               relevantHistory |-> getRelevantHistory(section),
                               before |-> EngineState])
    /\ last' = Done("refineSection: start", TRUE, 0, "")
    /\ UNCHANGED <<chatSummary, initialSummary, chatHistory, heap, snapshots, now>>
    /\ UNCHANGED otherThanChat

\* refineSection up to the await: the current content is read.
RefineStart(section, instruction) ==
    /\ calls' = Append(calls, [section |-> section, instruction |-> instruction,
                               currentContent |-> chatSummary[section],
                               relevantHistory |-> getRelevantHistory(section),
                               before |-> EngineState])
    /\ last' = Done("refineSection: start", TRUE, 0, "")
    /\ UNCHANGED <<chatSummary, initialSummary, chatHistory, heap, snapshots, now>>
    /\ UNCHANGED otherThanChat

\* Variant: the entry is pushed before the response is parsed.
RefineReturnsPushesFirst(c, rawResponse) ==
    /\ c \in 1..Len(calls)
    /\ LET request == calls[c]
           parsed == JSONParse(prepareResponseForParsing(rawResponse, request.section))
           updatedContent == repairResponse(parsed.val, request.section)
       IN  /\ heap' = [heap EXCEPT ![chatHistory] =
                          Append(@, Entry(now, request.section, request.instruction,
                                          request.currentContent, updatedContent))]
           /\ IF parsed.ok
                 THEN /\ chatSummary' = [chatSummary EXCEPT ![request.section] = updatedContent]
                      /\ last' = Returns("refineSection", now, "", chatSummary')
                 ELSE /\ UNCHANGED chatSummary
                      /\ last' = Thrown("refineSection", 0, "parse", ParseErrorMessage)
    /\ calls' = RemoveAt(calls, c)
    /\ UNCHANGED <<initialSummary, chatHistory, snapshots, now>>
    /\ UNCHANGED otherThanChat

\* messages.create resolves with a text block: the rest of refineSection.
RefineReturns(c, rawResponse) ==
    /\ c \in 1..Len(calls)
    /\ LET request == calls[c]
           parsed == JSONParse(prepareResponseForParsing(rawResponse, request.section))
           updatedContent == repairResponse(parsed.val, request.section)
       IN  IF parsed.ok
              THEN /\ chatSummary' = [chatSummary EXCEPT ![request.section] = updatedContent]
                   /\ heap' = [heap EXCEPT ![chatHistory] =
                                  Append(@, Entry(now, request.section,
                                                  request.instruction,
                                                  request.currentContent,
                                                  updatedContent))]
                   /\ last' = Returns("refineSection", now, "", chatSummary')
              ELSE /\ UNCHANGED <<chatSummary, heap>>
                   /\ last' = Thrown("refineSection", 0, "parse", ParseErrorMessage)
    /\ calls' = RemoveAt(calls, c)
    /\ UNCHANGED <<initialSummary, chatHistory, snapshots, now>>
    /\ UNCHANGED otherThanChat

\* Variant: the failed call makes the current document the initial one.
RefineThrowsRebasesInitial(c) ==
    /\ c \in 1..Len(calls)
    /\ calls' = RemoveAt(calls, c)
    /\ initialSummary' = chatSummary
    /\ last' = Thrown("refineSection", 0, "api", ApiErrorMessage)
    /\ UNCHANGED <<chatSummary, chatHistory, heap, snapshots, now>>
    /\ UNCHANGED otherThanChat

\* messages.create rejects, or its first content block is not text.
RefineThrows(c) ==
    /\ c \in 1..Len(calls)
    /\ calls' = RemoveAt(calls, c)
    /\ last' = Thrown("refineSection", 0, "api", ApiErrorMessage)
    /\ UNCHANGED <<chatSummary, initialSummary, chatHistory, heap, snapshots, now>>
    /\ UNCHANGED otherThanChat

\* Variant: the initial document is exported as the current one.
ExportedWithoutCurrent ==
    [version |-> HISTORY_VERSION, timestamp |-> now,
     hasInitial |-> TRUE, initialSummary |-> initialSummary,
     hasHistory |-> TRUE, history |-> chatHistory,
     hasCurrent |-> TRUE, currentSummary |-> initialSummary]

\* The object exportHistory() returns: it refers to the engine's own array.
Exported ==
    [version |-> HISTORY_VERSION, timestamp |-> now,
     hasInitial |-> TRUE, initialSummary |-> initialSummary,
     hasHistory |-> TRUE, history |-> chatHistory,
     hasCurrent |-> TRUE, currentSummary |-> chatSummary]

\* exportHistory(), the caller keeping the object.
exportHistory ==
    /\ Len(snapshots) < MaxSnapshots
    /\ snapshots' = Append(snapshots, Exported)
    /\ last' = Done("exportHistory", TRUE, 0, "")
    /\ UNCHANGED <<chatSummary, initialSummary, chatHistory, heap, calls, now>>
    /\ UNCHANGED otherThanChat

\* The caller lets go of a snapshot.
DropSnapshot(i) ==
    /\ i \in 1..Len(snapshots)
    /\ snapshots' = RemoveAt(snapshots, i)
    /\ heap' = Collect(heap, HeldArrays(snapshots') \cup {chatHistory})
    /\ last' = Done("drop", TRUE, 0, "")
    /\ UNCHANGED <<chatSummary, initialSummary, chatHistory, calls, now>>
    /\ UNCHANGED otherThanChat

\* Variant: the version is not compared.
ImportAcceptsAnyVersion(exported) ==
    /\ exported.version # ""
    /\ exported.hasInitial /\ exported.hasHistory /\ exported.hasCurrent

\* The two checks of importHistory.
ImportAccepts(exported) ==
    /\ exported.version # "" /\ exported.version = HISTORY_VERSION
    /\ exported.hasInitial /\ exported.hasHistory /\ exported.hasCurrent

\* importHistory(exported), the arrays being those of h.
Import(exported, h, source) ==
    /\ IF ImportAccepts(exported)
          THEN /\ initialSummary' = exported.initialSummary
               /\ chatHistory' = exported.history
               /\ chatSummary' = exported.currentSummary
               /\ heap' = Collect(h, HeldArrays(snapshots) \cup {exported.history})
               /\ last' = Done("importHistory", TRUE, 0, source)
          ELSE /\ UNCHANGED <<initialSummary, chatHistory, chatSummary, heap>>
               /\ last' = Thrown("importHistory", 0, source,
                                  IF exported.version # HISTORY_VERSION
                                     THEN <<"Incompatible history version">>
                                     ELSE <<"Invalid history format">>)
    /\ UNCHANGED <<snapshots, calls, now>>
    /\ UNCHANGED otherThanChat

\* importHistory of a snapshot the caller kept.
importHistory(i) ==
    /\ i \in 1..Len(snapshots)
    /\ Import(snapshots[i], heap, "kept")

\* importHistory(exportHistory())
roundTrip == Import(Exported, heap, "exported")

\* importHistory of a snapshot written elsewhere: the caller reads it into a
\* new object, hands it over and keeps no reference.
importForeign(f) ==
    LET a == NewArray(HeldArrays(snapshots) \cup {chatHistory})
    IN  Import([f EXCEPT !.history = a], [heap EXCEPT ![a] = f.history], "foreign")

\* Variant: the entries after the one found are kept instead of those up to it.
revertToTimestampKeepsTail(timestamp) ==
    LET entryIndex == FindIndex(Log, timestamp)
        kept == SubSeq(Log, entryIndex + 1, Len(Log))
        a == NewArray(HeldArrays(snapshots))
    IN  /\ IF entryIndex = 0
              THEN /\ UNCHANGED <<chatSummary, chatHistory, heap>>
                   /\ last' = Thrown("revertToTimestamp", timestamp, "",
                                      <<"Timestamp not found in history">>)
              ELSE /\ chatHistory' = a
                   /\ heap' = Collect([heap EXCEPT ![a] = kept],
                                      HeldArrays(snapshots) \cup {a})
                   /\ chatSummary' = Replay(initialSummary, kept)
                   /\ last' = Returns("revertToTimestamp", timestamp, "", chatSummary')
        /\ UNCHANGED <<initialSummary, snapshots, calls, now>>
        /\ UNCHANGED otherThanChat

\* chatHistory.slice(0, entryIndex + 1) and the replay of what is kept.
revertToTimestamp(timestamp) ==
    LET entryIndex == FindIndex(Log, timestamp)
        kept == SubSeq(Log, 1, entryIndex)
        a == NewArray(HeldArrays(snapshots))
    IN  /\ IF entryIndex = 0
              THEN /\ UNCHANGED <<chatSummary, chatHistory, heap>>
                   /\ last' = Thrown("revertToTimestamp", timestamp, "",
                                      <<"Timestamp not found in history">>)
              ELSE /\ chatHistory' = a
                   /\ heap' = Collect([heap EXCEPT ![a] = kept],
                                      HeldArrays(snapshots) \cup {a})
                   /\ chatSummary' = Replay(initialSummary, kept)
                   /\ last' = Returns("revertToTimestamp", timestamp, "", chatSummary')
        /\ UNCHANGED <<initialSummary, snapshots, calls, now>>
        /\ UNCHANGED otherThanChat

\* Variant: the entry is removed and the content left as it is.
revertLastChangeOnlyPops ==
    /\ IF Len(Log) = 0
          THEN /\ UNCHANGED <<chatSummary, heap>>
               /\ last' = Thrown("revertLastChange", 0, "",
                                  <<"No changes to revert">>)
          ELSE /\ UNCHANGED chatSummary
               /\ heap' = [heap EXCEPT ![chatHistory] = SubSeq(@, 1, Len(@) - 1)]
               /\ last' = Returns("revertLastChange", 0, "", chatSummary')
    /\ UNCHANGED <<initialSummary, chatHistory, snapshots, calls, now>>
    /\ UNCHANGED otherThanChat

revertLastChange ==
    /\ IF Len(Log) = 0
          THEN /\ UNCHANGED <<chatSummary, heap>>
               /\ last' = Thrown("revertLastChange", 0, "",
                                  <<"No changes to revert">>)
          ELSE LET lastEntry == Log[Len(Log)]
               IN  /\ chatSummary' = [chatSummary EXCEPT ![lastEntry.section] =
                                         lastEntry.previousContent]
                   /\ heap' = [heap EXCEPT ![chatHistory] = SubSeq(@, 1, Len(@) - 1)]
                   /\ last' = Returns("revertLastChange", 0, "", chatSummary')
    /\ UNCHANGED <<initialSummary, chatHistory, snapshots, calls, now>>
    /\ UNCHANGED otherThanChat

\* Variant: the document is restored and the history kept.
resetKeepsHistory ==
    /\ chatSummary' = initialSummary
    /\ last' = Returns("reset", 0, "", chatSummary')
    /\ UNCHANGED <<initialSummary, chatHistory, heap, snapshots, calls, now>>
    /\ UNCHANGED otherThanChat

reset ==
    LET a == NewArray(HeldArrays(snapshots))
    IN  /\ chatSummary' = initialSummary
        /\ chatHistory' = a
        /\ heap' = Collect([heap EXCEPT ![a] = <<>>], HeldArrays(snapshots) \cup {a})
        /\ last' = Returns("reset", 0, "", chatSummary')
        /\ UNCHANGED <<initialSummary, snapshots, calls, now>>
        /\ UNCHANGED otherThanChat

\* A millisecond passes.
Tick ==
    /\ now < MaxTime
    /\ now' = now + 1
    /\ last' = Done("tick", TRUE, 0, "")
    /\ UNCHANGED <<chatSummary, initialSummary, chatHistory, heap, snapshots, calls>>
    /\ UNCHANGED otherThanChat

\* new SummaryChat(anthropicApiKey, model, summary)
InitChat ==
    /\ chatSummary \in InitialSummaries
    /\ initialSummary = chatSummary
    /\ chatHistory = 1
    /\ heap = [a \in ArrayIds |-> <<>>]
    /\ snapshots = <<>>
    /\ calls = <<>>
    /\ now = 1
    /\ last = Done("constructor", TRUE, 0, "")

\* The facade's caller awaits each operation before it starts the next one.
Sequential == calls = <<>>

\* One engine, one caller, snapshots imported as soon as they are made or
\* read.
NextChat ==
    \/ \E section \in RefinedSections, instruction \in Instructions :
          /\ Sequential
          /\ Room(MaxLog, MaxCalls)
          /\ RefineStart(section, instruction)
          /\ UNCHANGED facadeVars
    \/ \E c \in 1..MaxCalls, rawResponse \in Responses :
          RefineReturns(c, rawResponse) /\ UNCHANGED facadeVars
    \/ \E c \in 1..MaxCalls : RefineThrows(c) /\ UNCHANGED facadeVars
    \/ Sequential /\ roundTrip /\ UNCHANGED facadeVars
    \/ \E f \in ForeignSnapshots :
          Sequential /\ importForeign(f) /\ UNCHANGED facadeVars
    \/ \E timestamp \in 0..MaxTime :
          Sequential /\ revertToTimestamp(timestamp) /\ UNCHANGED facadeVars
    \/ Sequential /\ revertLastChange /\ UNCHANGED facadeVars
    \/ Sequential /\ reset /\ UNCHANGED facadeVars
    \/ Tick /\ UNCHANGED facadeVars

\* ------------------------------------------------------------------------
\* Comprehensive analysis (SummariesAnalyzer)
\* ------------------------------------------------------------------------
\* Object.entries of a moderation.categories mapping that has all 13 keys,
\* those of trueOnes being true.
AllEntries(trueOnes) ==
    [k \in 1..13 |->
        [category |-> CategoryList[k], value |-> CategoryList[k] \in trueOnes]]

\* SectionSummary.moderation of the sections analyze is given: not there (or
\* null), clean, flagged for hate, flagged with no category set, an
\* unflagged mapping that has the one key violence, and one whose only key
\* is a category the moderation service knows and the interface does not.
SectionModerations ==
    {[present |-> FALSE, flagged |-> FALSE, entries |-> <<>>],
     [present |-> TRUE, flagged |-> FALSE, entries |-> AllEntries({})],
     [present |-> TRUE, flagged |-> TRUE, entries |-> AllEntries({"hate"})],
     [present |-> TRUE, flagged |-> TRUE, entries |-> AllEntries({})],
     [present |-> TRUE, flagged |-> FALSE,
      entries |-> <<[category |-> "violence", value |-> TRUE]>>],
     [present |-> TRUE, flagged |-> FALSE,
      entries |-> <<[category |-> "spam", value |-> FALSE]>>]}

\* BookSummary.sections
BookSummaries ==
    UNION {[1..n -> [moderation : SectionModerations]] : n \in 0..MaxSections}

NoAggregate == [flagged |-> FALSE, keys |-> <<>>, values |-> <<>>]

\* Variant: a category takes the value of the section looked at last.
MergeEntryLastWins(agg, e) ==
    [agg EXCEPT !.values =
        [k \in 1..Len(agg.keys) |->
            IF agg.keys[k] = e.category THEN e.value ELSE agg.values[k]]]

\* aggregatedCategories[category] = aggregatedCategories[category] || value
MergeEntry(agg, e) ==
    IF \E k \in 1..Len(agg.keys) : agg.keys[k] = e.category
       THEN [agg EXCEPT !.values =
                [k \in 1..Len(agg.keys) |->
                    IF agg.keys[k] = e.category THEN agg.values[k] \/ e.value
                    ELSE agg.values[k]]]
       ELSE [agg EXCEPT !.keys = Append(@, e.category),
                        !.values = Append(@, e.value)]

\* for (const [category, value] of Object.entries(section.moderation.categories))
RECURSIVE AggregateEntries(_, _)
AggregateEntries(agg, entries) ==
    IF entries = <<>> THEN agg
    ELSE AggregateEntries(MergeEntry(agg, Head(entries)), Tail(entries))

\* Variant: isFlagged is overwritten by each section that has a result.
MergeSectionOverwritesFlag(agg, section) ==
    IF section.moderation.present
       THEN AggregateEntries([agg EXCEPT !.flagged = section.moderation.flagged],
                             section.moderation.entries)
       ELSE agg

\* if (section.moderation) { isFlagged = isFlagged || ...flagged; ... }
MergeSection(agg, section) ==
    IF section.moderation.present
       THEN AggregateEntries(
                [agg EXCEPT !.flagged = @ \/ section.moderation.flagged],
                section.moderation.entries)
       ELSE agg

\* for (const section of summaries.sections)
RECURSIVE AggregateSections(_, _)
AggregateSections(agg, sections) ==
    IF sections = <<>> THEN agg
    ELSE AggregateSections(MergeSection(agg, Head(sections)), Tail(sections))

computeAggregatedModeration(summaries) ==
    AggregateSections([flagged |-> FALSE, keys |-> CategoryList,
                       values |-> [k \in 1..13 |-> FALSE]],
                      summaries)

\* The object { flagged: isFlagged, moderationCategories: aggregatedCategories }
ModerationDataValue(agg) ==
    JObj(<<FieldText("flagged"), FieldText("moderationCategories")>>,
         <<JBool(agg.flagged),
           JObj([k \in 1..Len(agg.keys) |-> CategoryText(agg.keys[k])],
                [k \in 1..Len(agg.keys) |-> JBool(agg.values[k])])>>)

HasKey(object, name) == \E j \in 1..Len(object.keys) : object.keys[j] = name

\* The object literal { ...a, ...b }
Spread(a, b) ==
    LET fresh(name) == ~HasKey(a, name)
        keys == a.keys \o SelectSeq(b.keys, fresh)
    IN  JObj(keys,
             [k \in 1..Len(keys) |->
                 IF HasKey(b, keys[k]) THEN Prop(b, keys[k])
                 ELSE Prop(a, keys[k])])

\* What JSON.parse of the generation service's text gives: the fields asked
\* for, and the same with a flagged or a moderationCategories key added.
LlmFields == JObj(<<FieldText("summary")>>, <<JStr(<<"s">>)>>)
LlmResults ==
    {LlmFields,
     Spread(LlmFields, JObj(<<FieldText("flagged")>>, <<JBool(TRUE)>>)),
     Spread(LlmFields,
            JObj(<<FieldText("moderationCategories")>>,
                 <<JObj(<<CategoryText("hate")>>, <<JBool(TRUE)>>)>>))}

\* Variant: the service's keys are spread last.
CombineServiceLast(result, aggregate) == Spread(aggregate, result)

\* const result = { ...llmResult, ...aggregate }
Combine(result, aggregate) == Spread(result, aggregate)

\* analyze(summaries) up to the await of the generation call.
AnalyzeStart(summaries) ==
    /\ analyzerCall # "pending"
    /\ analyzerInput' = summaries
    /\ analyzerCall' = "pending"
    /\ llmResult' = JUndefined
    /\ aggregatedModeration' = NoAggregate
    /\ comprehensive' = JUndefined
    /\ UNCHANGED otherThanAnalyzer

\* The generation call returned text that JSON.parse accepted.
AnalyzeReturns(result) ==
    /\ analyzerCall = "pending"
    /\ LET aggregate == computeAggregatedModeration(analyzerInput)
       IN  /\ aggregatedModeration' = aggregate
           /\ comprehensive' = Combine(result, ModerationDataValue(aggregate))
    /\ llmResult' = result
    /\ analyzerCall' = "returned"
    /\ UNCHANGED analyzerInput
    /\ UNCHANGED otherThanAnalyzer

\* The generation call threw, answered with something that is not text, or
\* JSON.parse threw: "Failed to analyze summaries".
AnalyzeThrows ==
    /\ analyzerCall = "pending"
    /\ analyzerCall' = "thrown"
    /\ UNCHANGED <<analyzerInput, llmResult, aggregatedModeration, comprehensive>>
    /\ UNCHANGED otherThanAnalyzer

\* new SummariesAnalyzer(config): nothing analysed yet.
IdleAnalyzer ==
    /\ analyzerInput = <<>>
    /\ analyzerCall = "idle"
    /\ llmResult = JUndefined
    /\ aggregatedModeration = NoAggregate
    /\ comprehensive = JUndefined

\* The engine under refinement requests for any field and reverts, without
\* imports.
NextRefine ==
    \/ \E section \in RequestSections, instruction \in Instructions :
          /\ Sequential
          /\ Room(MaxLog, MaxCalls)
          /\ RefineStart(section, instruction)
          /\ UNCHANGED facadeVars
    \/ \E c \in 1..MaxCalls, rawResponse \in ServiceTexts :
          RefineReturns(c, rawResponse) /\ UNCHANGED facadeVars
    \/ \E c \in 1..MaxCalls : RefineThrows(c) /\ UNCHANGED facadeVars
    \/ \E timestamp \in 0..MaxTime :
          Sequential /\ revertToTimestamp(timestamp) /\ UNCHANGED facadeVars
    \/ Sequential /\ revertLastChange /\ UNCHANGED facadeVars
    \/ Sequential /\ reset /\ UNCHANGED facadeVars
    \/ Tick /\ UNCHANGED facadeVars

\* ------------------------------------------------------------------------
\* The facade (BookAI): a book, its section summaries, a comprehensive
\* summary and, once a refinement or an import was asked for, an engine
\* ------------------------------------------------------------------------
\* Books a caller loads, by number; 0 stands for null.
Books == 1..MaxBooks

\* The comprehensive summary an analysis of the section summaries of book b
\* comes to.
AnalysisOf(b) ==
    [AnalyzedSummary EXCEPT !["summary"] = JStr(<<"b", "o", "o", "k", ToString(b)>>)]

\* A comprehensive summary a caller brings along for loadSummary.
LoadedSummary == [AnalyzedSummary EXCEPT !["summary"] = JStr(<<"k", "e", "p", "t">>)]

NoComprehensive == [set |-> FALSE, doc |-> NoDocument]
Comprehensive(doc) == [set |-> TRUE, doc |-> doc]

FacadeDone(op) == [op |-> op, ok |-> TRUE, message |-> ""]
FacadeThrown(op, message) == [op |-> op, ok |-> FALSE, message |-> message]

\* Fields of a new BookAI.
IdleFacade ==
    /\ facadeBook = 0
    /\ facadeBookSummary = 0
    /\ facadeSummary = NoComprehensive
    /\ facadeChat = FALSE
    /\ facadeLast = FacadeDone("constructor")

\* summaryChat is null: the engine's variables have nothing in them.
NoChat ==
    /\ chatSummary = NoDocument
    /\ initialSummary = NoDocument
    /\ chatHistory = 1
    /\ heap = [a \in ArrayIds |-> <<>>]
    /\ snapshots = <<>>
    /\ calls = <<>>
    /\ now = 1
    /\ last = Done("none", TRUE, 0, "")

\* new SummaryChat(anthropicApiKey, anthropicModel, summary)
NewChat(summary) ==
    /\ chatSummary' = summary
    /\ initialSummary' = summary
    /\ chatHistory' = 1
    /\ heap' = [a \in ArrayIds |-> <<>>]

\* The operation threw before it touched anything.
FacadeRefuses(op, message) ==
    /\ facadeLast' = FacadeThrown(op, message)
    /\ UNCHANGED <<facadeBook, facadeBookSummary, facadeSummary, facadeChat>>
    /\ UNCHANGED chatVars

\* load(content)
FacadeLoad(b) ==
    /\ facadeBook' = b
    /\ facadeLast' = FacadeDone("load")
    /\ UNCHANGED <<facadeBookSummary, facadeSummary, facadeChat>>
    /\ UNCHANGED chatVars
    /\ UNCHANGED otherThanChat

\* getSectionSummaries(); summarized tells whether summarizeSections returned.
FacadeGetSectionSummaries(summarized) ==
    /\ IF facadeBook = 0
          THEN FacadeRefuses("getSectionSummaries", "No book loaded. Call load() first.")
          ELSE /\ IF summarized
                     THEN /\ facadeBookSummary' = facadeBook
                          /\ facadeLast' = FacadeDone("getSectionSummaries")
                     ELSE /\ UNCHANGED facadeBookSummary
                          /\ facadeLast' = FacadeThrown("getSectionSummaries",
                                                        "Processing failed")
               /\ UNCHANGED <<facadeBook, facadeSummary, facadeChat>>
               /\ UNCHANGED chatVars
    /\ UNCHANGED otherThanChat

\* analyze(): the section summaries are those kept, or are made now;
\* analyzed tells whether SummariesAnalyzer.analyze returned.
FacadeAnalyze(summarized, analyzed) ==
    /\ IF facadeBook = 0
          THEN FacadeRefuses("analyze", "No book loaded. Call load() first.")
          ELSE LET kept == facadeBookSummary # 0
                   summaries == IF kept THEN facadeBookSummary ELSE facadeBook
               IN  /\ IF ~kept /\ ~summarized
                         THEN /\ UNCHANGED <<facadeBookSummary, facadeSummary>>
                              /\ facadeLast' = FacadeThrown("analyze", "Processing failed")
                      ELSE IF ~analyzed
                         THEN /\ facadeBookSummary' = summaries
                              /\ UNCHANGED facadeSummary
                              /\ facadeLast' = FacadeThrown("analyze", "Analysis failed")
                      ELSE /\ facadeBookSummary' = summaries
                           /\ facadeSummary' = Comprehensive(AnalysisOf(summaries))
                           /\ facadeLast' = FacadeDone("analyze")
                   /\ UNCHANGED <<facadeBook, facadeChat>>
                   /\ UNCHANGED chatVars
    /\ UNCHANGED otherThanChat

\* loadSummary(summary)
FacadeLoadSummary(summary) ==
    /\ facadeSummary' = Comprehensive(summary)
    /\ facadeLast' = FacadeDone("loadSummary")
    /\ UNCHANGED <<facadeBook, facadeBookSummary, facadeChat>>
    /\ UNCHANGED chatVars
    /\ UNCHANGED otherThanChat

\* refineSection(request) up to the await of the engine's messages.create;
\* the engine is made from the comprehensive summary when there is none.
FacadeRefineStart(section, instruction) ==
    IF ~facadeSummary.set
       THEN /\ FacadeRefuses("refineSection",
                             "No summary available. Call analyze() or loadSummary() first.")
            /\ UNCHANGED otherThanChat
    ELSE IF facadeChat
       THEN /\ RefineStart(section, instruction)
            /\ facadeLast' = FacadeDone("refineSection: start")
            /\ UNCHANGED <<facadeBook, facadeBookSummary, facadeSummary, facadeChat>>
    ELSE /\ NewChat(facadeSummary.doc)
         /\ calls' = Append(calls,
                            [section |-> section, instruction |-> instruction,
                             currentContent |-> facadeSummary.doc[section],
                             relevantHistory |-> <<>>,
                             before |-> [summary |-> facadeSummary.doc, log |-> <<>>,
                                         initial |-> facadeSummary.doc]])
         /\ last' = Done("refineSection: start", TRUE, 0, "")
         /\ facadeChat' = TRUE
         /\ facadeLast' = FacadeDone("refineSection: start")
         /\ UNCHANGED <<snapshots, now>>
         /\ UNCHANGED <<facadeBook, facadeBookSummary, facadeSummary>>
         /\ UNCHANGED otherThanChat

\* The engine's refineSection returns or throws; the facade keeps what it
\* returned.
FacadeRefineReturns(c, rawResponse) ==
    /\ RefineReturns(c, rawResponse)
    /\ IF last'.ok
          THEN /\ facadeSummary' = Comprehensive(last'.returned)
               /\ facadeLast' = FacadeDone("refineSection")
          ELSE /\ UNCHANGED facadeSummary
               /\ facadeLast' = FacadeThrown("refineSection", "Failed to refine summary")
    /\ UNCHANGED <<facadeBook, facadeBookSummary, facadeChat>>

FacadeRefineThrows(c) ==
    /\ RefineThrows(c)
    /\ facadeLast' = FacadeThrown("refineSection", "Failed to refine summary")
    /\ UNCHANGED <<facadeBook, facadeBookSummary, facadeSummary, facadeChat>>

\* importHistory(history): the engine is made from the comprehensive summary
\* when there is none, then it imports; the facade takes its getSummary().
FacadeImportHistory(f) ==
    IF ~facadeSummary.set
       THEN /\ FacadeRefuses("importHistory",
                             "No summary available. Call analyze() or loadSummary() first.")
            /\ UNCHANGED otherThanChat
    ELSE IF facadeChat \/ ImportAccepts(f)
       THEN /\ importForeign(f)
            /\ facadeChat' = TRUE
            /\ IF last'.ok
                  THEN /\ facadeSummary' = Comprehensive(chatSummary')
                       /\ facadeLast' = FacadeDone("importHistory")
                  ELSE /\ UNCHANGED facadeSummary
                       /\ facadeLast' = FacadeThrown("importHistory", "refused by the engine")
            /\ UNCHANGED <<facadeBook, facadeBookSummary>>
    ELSE /\ NewChat(facadeSummary.doc)
         /\ last' = Thrown("importHistory", 0, "foreign",
                           IF f.version # HISTORY_VERSION
                              THEN <<"Incompatible history version">>
                              ELSE <<"Invalid history format">>)
         /\ facadeChat' = TRUE
         /\ facadeLast' = FacadeThrown("importHistory", "refused by the engine")
         /\ UNCHANGED <<snapshots, calls, now>>
         /\ UNCHANGED <<facadeBook, facadeBookSummary, facadeSummary>>
         /\ UNCHANGED otherThanChat

\* What revertToTimestamp, revertLastChange and resetToInitial do with the
\* engine's answer.
FacadeKeeps(op) ==
    /\ IF last'.ok
          THEN /\ facadeSummary' = Comprehensive(last'.returned)
               /\ facadeLast' = FacadeDone(op)
          ELSE /\ UNCHANGED facadeSummary
               /\ facadeLast' = FacadeThrown(op, "thrown by the engine")
    /\ UNCHANGED <<facadeBook, facadeBookSummary, facadeChat>>

FacadeRevertToTimestamp(timestamp) ==
    IF ~facadeChat
       THEN /\ FacadeRefuses("revertToTimestamp", "No chat history available")
            /\ UNCHANGED otherThanChat
       ELSE revertToTimestamp(timestamp) /\ FacadeKeeps("revertToTimestamp")

FacadeRevertLastChange ==
    IF ~facadeChat
       THEN /\ FacadeRefuses("revertLastChange", "No chat history available")
            /\ UNCHANGED otherThanChat
       ELSE revertLastChange /\ FacadeKeeps("revertLastChange")

\* Variant: without an engine the comprehensive summary is dropped.
FacadeResetDropsSummary ==
    IF ~facadeChat
       THEN /\ facadeSummary' = NoComprehensive
            /\ facadeLast' = FacadeDone("resetToInitial")
            /\ UNCHANGED <<facadeBook, facadeBookSummary, facadeChat>>
            /\ UNCHANGED chatVars
            /\ UNCHANGED otherThanChat
       ELSE reset /\ FacadeKeeps("resetToInitial")

FacadeResetToInitial ==
    IF ~facadeChat
       THEN /\ FacadeRefuses("resetToInitial", "No chat history available")
            /\ UNCHANGED otherThanChat
       ELSE reset /\ FacadeKeeps("resetToInitial")

\* What the facade's engine is given here: a response that parses and one
\* that does not; snapshots the engine takes over and one it refuses.
FacadeResponses == {ResponseKeyed, ResponseBroken}
FacadeSnapshots ==
    {f \in ForeignSnapshots : f.hasInitial /\ f.hasHistory /\ f.hasCurrent}

\* One caller, who awaits each operation before the next one.
NextFacade ==
    \/ \E b \in Books : Sequential /\ FacadeLoad(b)
    \/ \E summarized \in BOOLEAN : Sequential /\ FacadeGetSectionSummaries(summarized)
    \/ \E summarized, analyzed \in BOOLEAN :
          Sequential /\ FacadeAnalyze(summarized, analyzed)
    \/ Sequential /\ FacadeLoadSummary(LoadedSummary)
    \/ \E instruction \in Instructions :
          Sequential /\ Room(MaxLog, MaxCalls)
                     /\ FacadeRefineStart("summary", instruction)
    \/ \E c \in 1..MaxCalls, rawResponse \in FacadeResponses :
          FacadeRefineReturns(c, rawResponse)
    \/ \E c \in 1..MaxCalls : FacadeRefineThrows(c)
    \/ \E f \in FacadeSnapshots : Sequential /\ FacadeImportHistory(f)
    \/ \E timestamp \in 0..1 : Sequential /\ FacadeRevertToTimestamp(timestamp)
    \/ Sequential /\ FacadeRevertLastChange
    \/ Sequential /\ FacadeResetToInitial

\* The pipeline while only the engine is looked at: no book, no run.
IdlePipeline ==
    /\ book = <<>>
    /\ concurrencyLimit = 1
    /\ enableModeration = FALSE
    /\ summarizerSummary = NoSummary
    /\ runs = 0
    /\ taskState = <<>>
    /\ translateCall = <<>>
    /\ translateData = <<>>
    /\ moderationCall = <<>>
    /\ moderationData = <<>>
    /\ sectionResult = <<>>
    /\ outcome = "none"
    /\ returned = NoSummary
    /\ error = NoError
    /\ settleOrder = <<>>
    /\ summaryBefore = NoSummary

Init == IdlePipeline /\ InitChat /\ IdleAnalyzer /\ IdleParser /\ IdleFacade

Next == NextChat

Spec == Init /\ [][Next]_vars

SpecRefine == Init /\ [][NextRefine]_vars

\* The engine refined again and again, so that its log grows long.
NextHistory ==
    \/ \E section \in RefinedSections, instruction \in Instructions :
          /\ Sequential
          /\ Room(MaxHistory, MaxCalls)
          /\ RefineStart(section, instruction)
          /\ UNCHANGED facadeVars
    \/ \E c \in 1..MaxCalls : RefineReturns(c, ResponseKeyed) /\ UNCHANGED facadeVars
    \/ Tick /\ UNCHANGED facadeVars

SpecHistory == Init /\ [][NextHistory]_vars

\* The engine with a caller that does not await a refineSection call before
\* it makes the next one: up to MaxOverlap calls are suspended in their
\* generation call, and they complete in any order.
NextOverlap ==
    \/ \E section \in RefinedSections, instruction \in Instructions :
          /\ Room(MaxLog, MaxOverlap)
          /\ RefineStart(section, instruction)
          /\ UNCHANGED facadeVars
    \/ \E c \in 1..MaxOverlap, rawResponse \in Responses :
          RefineReturns(c, rawResponse) /\ UNCHANGED facadeVars
    \/ \E c \in 1..MaxOverlap : RefineThrows(c) /\ UNCHANGED facadeVars
    \/ Sequential /\ revertLastChange /\ UNCHANGED facadeVars
    \/ Tick /\ UNCHANGED facadeVars

SpecOverlap == Init /\ [][NextOverlap]_vars

\* The engine with a caller that keeps the objects exportHistory() gave it
\* and hands them back to importHistory() later, all within one millisecond;
\* the caller lets go of the object it has before it asks for another one.
NextSnapshots ==
    \/ \E instruction \in Instructions :
          /\ Sequential
          /\ Room(MaxLog, MaxCalls)
          /\ RefineStart("summary", instruction)
          /\ UNCHANGED facadeVars
    \/ \E c \in 1..MaxCalls, rawResponse \in FacadeResponses :
          RefineReturns(c, rawResponse) /\ UNCHANGED facadeVars
    \/ \E c \in 1..MaxCalls : RefineThrows(c) /\ UNCHANGED facadeVars
    \/ Sequential /\ snapshots = <<>> /\ exportHistory /\ UNCHANGED facadeVars
    \/ \E i \in 1..MaxSnapshots :
          Sequential /\ importHistory(i) /\ UNCHANGED facadeVars
    \/ \E i \in 1..MaxSnapshots :
          Sequential /\ DropSnapshot(i) /\ UNCHANGED facadeVars
    \/ \E timestamp \in 0..MaxTime :
          Sequential /\ revertToTimestamp(timestamp) /\ UNCHANGED facadeVars
    \/ Sequential /\ revertLastChange /\ UNCHANGED facadeVars
    \/ Sequential /\ reset /\ UNCHANGED facadeVars

SpecSnapshots == Init /\ [][NextSnapshots]_vars

InitFacade == IdlePipeline /\ NoChat /\ IdleAnalyzer /\ IdleParser /\ IdleFacade

SpecFacade == InitFacade /\ [][NextFacade]_vars

InitParser ==
    IdlePipeline /\ InitChat /\ IdleAnalyzer /\ ResponseAtHand /\ IdleFacade

SpecParser == InitParser /\ [][NextParser]_vars

InitPipeline ==
    /\ \E n \in 0..MaxSections : book = BookOf(n)
    /\ concurrencyLimit \in 1..MaxK
    /\ enableModeration \in BOOLEAN
    /\ summarizerSummary = NoSummary
    /\ runs = 0
    /\ taskState = [i \in Sections |-> "none"]
    /\ translateCall = [i \in Sections |-> "idle"]
    /\ translateData = [i \in Sections |-> NoData]
    /\ moderationCall = [i \in Sections |-> "idle"]
    /\ moderationData = [i \in Sections |-> NoModeration]
    /\ sectionResult = [i \in Sections |-> NoResult]
    /\ outcome = "none"
    /\ returned = NoSummary
    /\ error = NoError
    /\ settleOrder = <<>>
    /\ summaryBefore = NoSummary
    /\ InitChat
    /\ IdleAnalyzer
    /\ IdleParser
    /\ IdleFacade

NextPipeline ==
    \/ StartRun
    \/ \E i \in 1..MaxSections : Admit(i)
    \/ \E i \in 1..MaxSections, ok \in BOOLEAN, data \in ServiceData :
          TranslateReturns(i, ok, data)
    \/ \E i \in 1..MaxSections : TranslateThrows(i)
    \/ \E i \in 1..MaxSections, m \in ModerationOutputs : ModerationReturns(i, m)
    \/ \E i \in 1..MaxSections : ModerationThrows(i)

SpecPipeline == InitPipeline /\ [][NextPipeline]_vars

InitAnalyzer ==
    IdlePipeline /\ InitChat /\ IdleAnalyzer /\ IdleParser /\ IdleFacade

NextAnalyzer ==
    \/ \E summaries \in BookSummaries : AnalyzeStart(summaries)
    \/ \E result \in LlmResults : AnalyzeReturns(result)
    \/ AnalyzeThrows

SpecAnalyzer == InitAnalyzer /\ [][NextAnalyzer]_vars

\* ------------------------------------------------------------------------
\* Properties of the section summarization pipeline
\* ------------------------------------------------------------------------

\* C1: whenever summarizeSections has returned, the BookSummary has exactly
\* N entries and entry i carries the title of input section i, whatever the
\* completion order and whatever title the service put into its result.
C1_OrderAndTitles ==
    outcome = "returned" =>
        /\ returned.set
        /\ Len(returned.sections) = N
        /\ \A i \in Sections : returned.sections[i].title = book[i].title

\* C1 witness: a two-section run returned although section 2 settled first
\* and the service answered with titles of its own.
C1_Witness ==
    /\ outcome = "returned"
    /\ N = 2
    /\ settleOrder = <<2, 1>>
    /\ book[1].title # book[2].title
    /\ \A i \in Sections : translateData[i].title # book[i].title

\* C2: once the generation call of a section has failed (failure result or
\* thrown error) the run returns no BookSummary and leaves the stored summary
\* as it was when the run started; the caller has its error as soon as the
\* failing section's task has settled.
C2_FailFast ==
    \A i \in Sections :
        translateCall[i] \in {"failure", "thrown"} =>
            /\ outcome # "returned"
            /\ returned = NoSummary
            /\ summarizerSummary = summaryBefore
            /\ (moderationCall[i] # "pending" => outcome = "thrown")

\* C2 witness: a second run, after a first one stored a summary, in which
\* one section failed and the other one succeeded.
C2_Witness ==
    /\ runs = 2
    /\ summaryBefore.set
    /\ outcome = "thrown"
    /\ \E i, j \in Sections :
          /\ translateCall[i] = "failure"
          /\ taskState[j] = "fulfilled"

\* C3: at most concurrencyLimit sections are admitted and not yet settled.
C3_AtMostKInFlight == Cardinality(InFlight) <= concurrencyLimit

\* C3 witness: the limiter is full and a section waits in the queue.
C3_Witness ==
    /\ Cardinality(InFlight) = concurrencyLimit
    /\ \E i \in Sections : taskState[i] = "queued"

\* The error handed to the caller has this text as a part of its message.
ErrorNames(text) == \E k \in 1..Len(error.message) : error.message[k] = text

\* C16: the error summarizeSections surfaces for a failed section (failure
\* result or thrown error) names the section's index and its title.
C16_ErrorNamesIndexAndTitle ==
    (outcome = "thrown" /\ error.cause \in {"failure", "translate threw"}) =>
        /\ ErrorNames(ToString(error.section - 1))
        /\ ErrorNames(book[error.section].title)

\* C16 restricted to what the code keeps: the error for a failure result
\* names the index of the section that failed, counted from 0.
C16_FailureResultNamesIndex ==
    (outcome = "thrown" /\ error.cause = "failure") =>
        /\ translateCall[error.section] = "failure"
        /\ ErrorNames(ToString(error.section - 1))

\* C16 witness: the run failed on the failure result of its second section.
C16_Witness ==
    /\ outcome = "thrown"
    /\ error.cause = "failure"
    /\ error.section = 2
    /\ ErrorNames("1")

\* C15: with moderation disabled no call to the moderation service is issued
\* and no SectionSummary of the result has a moderation field.
C15_DisabledMeansNoModeration ==
    ~enableModeration =>
        /\ \A i \in Sections : moderationCall[i] \in {"idle", "null"}
        /\ outcome = "returned" =>
              \A i \in Sections : ~returned.sections[i].moderation.present

\* C15 restricted to what the code keeps: with moderation disabled no call to
\* the moderation service is issued and a section's moderation field, when
\* it has one, is the one of the generation service's own data.
C15_NoModerationCall ==
    ~enableModeration =>
        /\ \A i \in Sections :
              /\ moderationCall[i] \in {"idle", "null"}
              /\ moderationData[i] = NoModeration
        /\ outcome = "returned" =>
              \A i \in Sections :
                  returned.sections[i].moderation = translateData[i].moderation

\* C15 witness: a two-section run without moderation returned and one of its
\* sections has no moderation field.
C15_Witness ==
    /\ ~enableModeration
    /\ outcome = "returned"
    /\ N = 2
    /\ \A i \in Sections : moderationCall[i] = "null"
    /\ ~returned.sections[1].moderation.present

\* ------------------------------------------------------------------------
\* Properties of the comprehensive analysis
\* ------------------------------------------------------------------------
\* aggregatedCategories[c] of an aggregate.
CategoryOf(agg, c) == agg.values[CHOOSE k \in 1..Len(agg.keys) : agg.keys[k] = c]

\* Section i has a moderation result whose categories hold c as true.
SectionSays(i, c) ==
    LET m == analyzerInput[i].moderation
    IN  /\ m.present
        /\ \E e \in 1..Len(m.entries) :
              m.entries[e].category = c /\ m.entries[e].value

\* C11: the aggregated value of each of the 13 categories is the OR of that
\* category over the sections that have a moderation result.
C11_CategoriesAreOr ==
    analyzerCall = "returned" =>
        \A c \in Categories :
            CategoryOf(aggregatedModeration, c) <=>
                \E i \in 1..Len(analyzerInput) : SectionSays(i, c)

\* C11 witness: hate is true in section 1 and false in section 2, and the
\* aggregate holds it as true.
C11_Witness ==
    /\ analyzerCall = "returned"
    /\ Len(analyzerInput) = 2
    /\ SectionSays(1, "hate")
    /\ analyzerInput[2].moderation.present
    /\ ~SectionSays(2, "hate")
    /\ CategoryOf(aggregatedModeration, "hate")

\* C12: the aggregated flagged is the OR of moderation.flagged over the
\* sections that have a moderation result; with no such section it is false
\* and so is every category.
C12_FlaggedIsOr ==
    analyzerCall = "returned" =>
        /\ aggregatedModeration.flagged <=>
              \E i \in 1..Len(analyzerInput) :
                  /\ analyzerInput[i].moderation.present
                  /\ analyzerInput[i].moderation.flagged
        /\ (\A i \in 1..Len(analyzerInput) : ~analyzerInput[i].moderation.present)
              => /\ ~aggregatedModeration.flagged
                 /\ \A c \in Categories : ~CategoryOf(aggregatedModeration, c)

\* C12 witness: a flagged section followed by an unflagged one; the aggregate
\* is flagged.
C12_Witness ==
    /\ analyzerCall = "returned"
    /\ Len(analyzerInput) = 2
    /\ analyzerInput[1].moderation.present
    /\ analyzerInput[1].moderation.flagged
    /\ analyzerInput[2].moderation.present
    /\ ~analyzerInput[2].moderation.flagged
    /\ aggregatedModeration.flagged

\* C13: flagged and moderationCategories of the ComprehensiveSummary are the
\* aggregator's output for the given BookSummary, also when the service's
\* JSON has keys of these names.
C13_ModerationFromAggregator ==
    analyzerCall = "returned" =>
        LET expected ==
                ModerationDataValue(computeAggregatedModeration(analyzerInput))
        IN  /\ Prop(comprehensive, FieldText("flagged")) =
                  Prop(expected, FieldText("flagged"))
            /\ Prop(comprehensive, FieldText("moderationCategories")) =
                  Prop(expected, FieldText("moderationCategories"))

\* C13 witness: the service's JSON said flagged: true for a book whose
\* aggregate is not flagged.
C13_Witness ==
    /\ analyzerCall = "returned"
    /\ Prop(llmResult, FieldText("flagged")) = JBool(TRUE)
    /\ ~aggregatedModeration.flagged
    /\ Prop(comprehensive, FieldText("flagged")) = JBool(FALSE)

\* ------------------------------------------------------------------------
\* Properties of the refinement history engine
\* ------------------------------------------------------------------------

\* C4: replay law.  revertToTimestamp given the timestamp of the k-th entry
\* of a log written by refineSection leaves the log equal to its first k
\* entries and the document equal to the initial one with the updatedContent
\* of these k entries written in log order.
C4_ReplayLaw ==
    [][last'.op = "revertToTimestamp" =>
          \A k \in 1..Len(Log) :
              Log[k].timestamp = last'.ts =>
                  /\ last'.ok
                  /\ Log' = SubSeq(Log, 1, k)
                  /\ chatSummary' = Replay(initialSummary, SubSeq(Log, 1, k))]_vars

\* C4 restricted to logs whose timestamps are pairwise distinct: there the
\* entry found by revertToTimestamp is the k-th one and the replay law holds.
C4_ReplayLawDistinctTimestamps ==
    [][(/\ last'.op = "revertToTimestamp"
        /\ \A i, j \in 1..Len(Log) :
              Log[i].timestamp = Log[j].timestamp => i = j) =>
          \A k \in 1..Len(Log) :
              Log[k].timestamp = last'.ts =>
                  /\ last'.ok
                  /\ Log' = SubSeq(Log, 1, k)
                  /\ chatSummary' = Replay(initialSummary, SubSeq(Log, 1, k))]_vars

\* C4 witness: a revert to the timestamp of an entry succeeded and left a
\* one-entry log whose replay is the document.
C4_Witness ==
    /\ last.op = "revertToTimestamp"
    /\ last.ok
    /\ Len(Log) = 1
    /\ Log[1].timestamp = last.ts
    /\ chatSummary # initialSummary
    /\ chatSummary = Replay(initialSummary, Log)

\* C5: a refineSection call that fails leaves document, log and initial
\* document as they were when the call started.
C5_FailedRefineChangesNothing ==
    [][(last'.op = "refineSection" /\ ~last'.ok) =>
          \E c \in 1..Len(calls) :
              /\ calls' = RemoveAt(calls, c)
              /\ EngineState' = calls[c].before]_vars

\* C5 witness: a refinement of an already refined document failed on an
\* unparseable response.
C5_Witness ==
    /\ last.op = "refineSection"
    /\ ~last.ok
    /\ last.source = "parse"
    /\ Len(Log) >= 1

\* C6: importHistory(exportHistory()) succeeds and leaves document, log and
\* initial document unchanged.
C6_RoundTrip ==
    [][(last'.op = "importHistory" /\ last'.source = "exported") =>
          /\ last'.ok
          /\ EngineState' = EngineState]_vars

\* C6 witness: a round trip made after refinements changed the document.
C6_Witness ==
    /\ last.op = "importHistory"
    /\ last.source = "exported"
    /\ last.ok
    /\ Len(Log) >= 2
    /\ chatSummary # initialSummary

\* C7: after reset() the document equals the initial one and the log is
\* empty, also when the initial document came in with a foreign history.
C7_Reset ==
    last.op = "reset" => (chatSummary = initialSummary /\ Log = <<>>)

\* C7 witness: a reset of an engine that had imported a foreign history.
C7_Witness ==
    /\ last.op = "reset"
    /\ initialSummary = ForeignSummary
    /\ initialSummary # AnalyzedSummary

\* C8: revertLastChange() throws on an empty log and changes nothing;
\* otherwise it writes the last entry's previousContent into its section,
\* leaves the other fields alone and removes exactly the last entry.
C8_RevertLastChange ==
    [][last'.op = "revertLastChange" =>
          IF Len(Log) = 0
             THEN ~last'.ok /\ EngineState' = EngineState
             ELSE /\ last'.ok
                  /\ chatSummary' =
                        [chatSummary EXCEPT ![Log[Len(Log)].section] =
                            Log[Len(Log)].previousContent]
                  /\ Log' = SubSeq(Log, 1, Len(Log) - 1)
                  /\ initialSummary' = initialSummary]_vars

\* C8 witness: the last of several changes was reverted and the document
\* still differs from the initial one.
C8_Witness ==
    /\ last.op = "revertLastChange"
    /\ last.ok
    /\ Len(Log) >= 1
    /\ chatSummary # initialSummary

\* C9: revertToTimestamp(ts) throws when no entry has timestamp ts and then
\* changes neither the log nor the document.
C9_RevertToUnknownTimestamp ==
    [][(/\ last'.op = "revertToTimestamp"
        /\ \A k \in 1..Len(Log) : Log[k].timestamp # last'.ts) =>
          /\ ~last'.ok
          /\ EngineState' = EngineState]_vars

\* C9 witness: a revert to a timestamp no entry of a non-empty log carries.
C9_Witness ==
    /\ last.op = "revertToTimestamp"
    /\ ~last.ok
    /\ Len(Log) >= 1
    /\ \A k \in 1..Len(Log) : Log[k].timestamp # last.ts

\* C10: importHistory throws, changing nothing, when the snapshot has another
\* version or lacks initialSummary, history or currentSummary; a snapshot of
\* the right version with an empty history is taken over.
C10_ImportChecks ==
    [][\A f \in ForeignSnapshots :
          importForeign(f) =>
              /\ (f.version # HISTORY_VERSION \/ ~f.hasInitial
                     \/ ~f.hasHistory \/ ~f.hasCurrent) =>
                    (~last'.ok /\ EngineState' = EngineState)
              /\ (f.version = HISTORY_VERSION /\ f.hasInitial /\ f.hasHistory
                     /\ f.hasCurrent /\ f.history = <<>>) =>
                    /\ last'.ok
                    /\ Log' = <<>>
                    /\ chatSummary' = f.currentSummary
                    /\ initialSummary' = f.initialSummary]_vars

\* C10 witness: an import was refused by an engine with a history of its own.
C10_Witness ==
    /\ last.op = "importHistory"
    /\ last.source = "foreign"
    /\ ~last.ok
    /\ Len(Log) >= 1

\* C14: in every state reached through refineSection, revertToTimestamp,
\* revertLastChange and reset the document's flagged and moderationCategories
\* are those of the initial document.
C14_ModerationFieldsKept ==
    /\ chatSummary["flagged"] = initialSummary["flagged"]
    /\ chatSummary["moderationCategories"] = initialSummary["moderationCategories"]

\* C14 restricted to what the code keeps: a successful refineSection writes
\* the one field its request names and leaves every other field alone.
C14_OnlyNamedFieldWritten ==
    [][(last'.op = "refineSection" /\ last'.ok) =>
          \A f \in Fields \ {Log'[Len(Log')].section} :
              chatSummary'[f] = chatSummary[f]]_vars

\* C14 witness: a refinement of keywords went through and the moderation
\* fields are still those of the initial document.
C14_Witness ==
    /\ last.op = "refineSection"
    /\ last.ok
    /\ Log[Len(Log)].section = "keywords"
    /\ chatSummary["keywords"] # initialSummary["keywords"]
    /\ C14_ModerationFieldsKept

\* C19: a refineSection call whose prepared response cannot be parsed fails
\* with a parse error whose message names the field of the request.
C19_ParseErrorNamesField ==
    [][(last'.op = "refineSection" /\ ~last'.ok /\ last'.source = "parse") =>
          \E c \in 1..Len(calls) :
              /\ calls' = RemoveAt(calls, c)
              /\ \E k \in 1..Len(last'.message) :
                    last'.message[k] = calls[c].section]_vars

\* C19 restricted to what the code keeps: a refineSection call whose
\* prepared response cannot be parsed fails with the message "Failed to
\* refine summary: Failed to parse response: ..." and writes nothing.
C19_ParseErrorSurfaced ==
    [][\A c \in 1..Len(calls), rawResponse \in Responses :
          (/\ RefineReturns(c, rawResponse)
           /\ ~JSONParse(prepareResponseForParsing(rawResponse,
                                                   calls[c].section)).ok) =>
              /\ last'.op = "refineSection"
              /\ ~last'.ok
              /\ last'.message[2] = "Failed to parse response: "
              /\ EngineState' = EngineState]_vars

\* C19 witness: a refinement of summary failed on a response no repair
\* strategy made parseable.
C19_Witness ==
    /\ last.op = "refineSection"
    /\ ~last.ok
    /\ last.source = "parse"
    /\ last.message = ParseErrorMessage

\* ------------------------------------------------------------------------
\* Properties of the response repair
\* ------------------------------------------------------------------------
\* The value is an array whose elements are all strings.
IsStringList(value) ==
    /\ value.t = "arr"
    /\ \A k \in 1..Len(value.items) : value.items[k].t = "str"

\* C17: a response that is valid JSON is parsed as it is, nothing stripped,
\* wrapped or escaped; when it is an array of strings, that array is the
\* content refineSection goes on with.
C17_ValidJsonUsedAsIs ==
    (parserStage # "response" /\ JSONParse(parserRaw).ok) =>
        /\ parserPrepared = parserRaw
        /\ parserStage # "failed"
        /\ parserStage \in {"parsed", "repaired"} =>
              parserParsed.val = JSONParse(parserRaw).val
        /\ (parserStage = "repaired" /\ IsStringList(JSONParse(parserRaw).val)) =>
              parserRepaired = JSONParse(parserRaw).val

\* C17 witness: ["a","b"] came in for keywords and went through as that
\* array.
C17_Witness ==
    /\ parserStage = "repaired"
    /\ parserSection = "keywords"
    /\ parserRaw = ResponseList
    /\ parserRepaired = JArr(<<JStr(<<"a">>), JStr(<<"b">>)>>)

\* The trimmed, fence-stripped form of the response at hand.
Cleaned == Trim(StripFences(parserRaw))

\* The response at hand is bare text: not valid JSON, and its cleaned form
\* starts with neither a brace, a bracket nor a quote.
BareText ==
    /\ ~JSONParse(parserRaw).ok
    /\ ~StartsWith(Cleaned, <<"{">>)
    /\ ~StartsWith(Cleaned, <<"[">>)
    /\ ~StartsWith(Cleaned, <<"\"">>)

\* C18: bare text parses, for field f, to the object {f: text}, quote
\* characters of the text kept as content.
C18_BareTextParses ==
    (BareText /\ parserStage \in {"parsed", "failed", "repaired"}) =>
        /\ parserParsed.ok
        /\ parserParsed.val = JObj(<<FieldText(parserSection)>>, <<JStr(Cleaned)>>)

\* C18 restricted to what the code keeps: bare text that has no backslash
\* and no control character parses to {f: text}.
C18_BareTextWithoutEscapes ==
    (/\ BareText
     /\ parserStage \in {"parsed", "failed", "repaired"}
     /\ \A k \in 1..Len(Cleaned) : Cleaned[k] \notin ControlChars \cup {"\\"}) =>
        /\ parserParsed.ok
        /\ parserParsed.val = JObj(<<FieldText(parserSection)>>, <<JStr(Cleaned)>>)

\* C18 witness: the bare text a"a was parsed for summary.
C18_Witness ==
    /\ parserStage = "parsed"
    /\ parserSection = "summary"
    /\ parserRaw = <<"a", "\"", "a">>
    /\ parserParsed.val = JObj(<<FieldText("summary")>>, <<JStr(<<"a", "\"", "a">>)>>)

\* The fields whose declared type is a string or a list of strings (quality
\* may also be null).
TextFields == Fields \ {"flagged", "moderationCategories"}

\* A string or a list of strings.
IsFieldValue(value) == value.t = "str" \/ IsStringList(value)

\* C20: every text field of the document, and previousContent and
\* updatedContent of every log entry for a text field, is a string or a list
\* of strings (null where quality had none), whatever parseable text the
\* generation service returned.
C20_ContentIsStringOrList ==
    /\ \A f \in TextFields :
          \/ IsFieldValue(chatSummary[f])
          \/ f = "quality" /\ chatSummary[f].t = "null"
    /\ \A k \in 1..Len(Log) :
          Log[k].section \in TextFields =>
              /\ IsFieldValue(Log[k].updatedContent)
              /\ \/ IsFieldValue(Log[k].previousContent)
                 \/ Log[k].previousContent.t = "null"

\* ------------------------------------------------------------------------
\* Log discipline, timestamps and the initial document
\* ------------------------------------------------------------------------
IsPrefix(s, t) == Len(s) <= Len(t) /\ SubSeq(t, 1, Len(s)) = s

\* C21: across a single engine operation the old log is a prefix of the new
\* one, which has at most one entry more; only revertToTimestamp may leave a
\* prefix of the old log, revertLastChange the old log without its last
\* entry, reset the empty log and importHistory the log of the snapshot; a
\* refineSection call removes and alters no entry.
C21_LogDiscipline ==
    [][/\ \/ IsPrefix(Log, Log') /\ Len(Log') <= Len(Log) + 1
          \/ last'.op = "revertToTimestamp" /\ IsPrefix(Log', Log)
          \/ last'.op = "revertLastChange" /\ Log' = SubSeq(Log, 1, Len(Log) - 1)
          \/ last'.op = "reset" /\ Log' = <<>>
          \/ last'.op = "importHistory" /\ last'.source = "exported" /\ Log' = Log
          \/ /\ last'.op = "importHistory" /\ last'.source = "foreign"
             /\ \E f \in ForeignSnapshots : importForeign(f) /\ Log' = f.history
       /\ (last'.op \in {"refineSection: start", "refineSection"}) =>
             IsPrefix(Log, Log')]_vars

\* C21 witness: a refinement appended an entry to a log that had one, and
\* the entry that was there is the first one still.
C21_Witness ==
    /\ last.op = "refineSection"
    /\ last.ok
    /\ Len(Log) = 2
    /\ Log[1].timestamp <= Log[2].timestamp

\* C25: a refineSection call that succeeds appends exactly one entry, which
\* carries the section and the instruction of the request, as previousContent
\* the content the section had when the call started and as updatedContent
\* the repaired value of the response; the section of the document becomes
\* that value, every other field stays, and the document returned is the new
\* current one.
C25_SuccessfulRefine ==
    [][(last'.op = "refineSection" /\ last'.ok) =>
          \E c \in 1..Len(calls), rawResponse \in Responses :
              LET request == calls[c]
                  entry == Log'[Len(Log')]
                  parsed == JSONParse(prepareResponseForParsing(rawResponse,
                                                                request.section))
              IN  /\ RefineReturns(c, rawResponse)
                  /\ Log' = Append(Log, entry)
                  /\ entry.section = request.section
                  /\ entry.instruction = request.instruction
                  /\ entry.previousContent = request.before.summary[request.section]
                  /\ entry.updatedContent = repairResponse(parsed.val, request.section)
                  /\ chatSummary'[request.section] = entry.updatedContent
                  /\ \A f \in Fields \ {request.section} :
                        chatSummary'[f] = chatSummary[f]
                  /\ last'.returned = chatSummary']_vars

\* C25 witness: a second refinement of the same section went through, so
\* that the content it found was not the initial one.
C25_Witness ==
    /\ last.op = "refineSection"
    /\ last.ok
    /\ Len(Log) = 2
    /\ Log[1].section = Log[2].section
    /\ Log[2].previousContent = Log[1].updatedContent
    /\ Log[2].previousContent # initialSummary[Log[2].section]
    /\ last.returned = chatSummary

\* C27: in every state of the engine the timestamps of the log are strictly
\* increasing in log order, hence pairwise distinct, so that a timestamp
\* names at most one entry.
C27_TimestampsStrictlyIncreasing ==
    \A i, j \in 1..Len(Log) : i < j => Log[i].timestamp < Log[j].timestamp

\* C27 restricted to what the code keeps while the clock does not go back:
\* the timestamps of the log never decrease in log order.
C27_TimestampsNeverDecrease ==
    \A i, j \in 1..Len(Log) : i < j => Log[i].timestamp <= Log[j].timestamp

\* C27 witness: two entries written in different milliseconds.
C27_Witness ==
    /\ last.op = "refineSection"
    /\ last.ok
    /\ Len(Log) = 2
    /\ Log[1].timestamp < Log[2].timestamp

\* C28: the initial document changes in an importHistory that succeeds and
\* in no other step: refineSection, whether it succeeds or fails,
\* revertToTimestamp, revertLastChange and reset leave it as it is.
C28_InitialChangedOnlyByImport ==
    [][/\ initialSummary' # initialSummary =>
             (last'.op = "importHistory" /\ last'.ok)
       /\ last'.op \in {"refineSection: start", "refineSection",
                        "revertToTimestamp", "revertLastChange", "reset"} =>
             initialSummary' = initialSummary]_vars

\* C28 witness: a change made after a foreign history was imported has been
\* reverted, and the initial document is the imported one still.
C28_Witness ==
    /\ last.op = "revertLastChange"
    /\ last.ok
    /\ initialSummary = ForeignSummary
    /\ initialSummary # AnalyzedSummary
    /\ Len(Log) >= 1

\* ------------------------------------------------------------------------
\* Outcome, admission order and progress of the pipeline
\* ------------------------------------------------------------------------
\* The sections whose tasks rejected, in the order they did.
Rejections == SelectSeq(settleOrder, LAMBDA i : taskState[i] = "rejected")

\* What the caller of the running summarizeSections call has been given.
CallerHas == <<outcome, returned, error>>

\* C24: the caller of summarizeSections is given one outcome.  As soon as a
\* section has failed it is an error, that of the section that failed first
\* in time, and no BookSummary; sections that settle afterwards change
\* neither what the caller has nor the stored summary.
C24_SingleOutcome ==
    [][/\ (Rejections' # <<>>) =>
             /\ outcome' = "thrown"
             /\ returned' = NoSummary
             /\ summarizerSummary' = summaryBefore'
             /\ error'.section = Rejections'[1]
             /\ error'.message = <<"Processing failed: ">>
                                    \o TaskErrorMessage(error'.section, error'.cause)
       /\ (outcome' = "returned") => (error' = NoError /\ returned'.set)
       /\ (outcome \in {"returned", "thrown"} /\ runs' = runs) =>
             (CallerHas' = CallerHas /\ summarizerSummary' = summarizerSummary)]_vars

\* C24 witness: both sections of a book failed, the second one first, and
\* the caller has the error of the second one.
C24_Witness ==
    /\ N = 2
    /\ Rejections = <<2, 1>>
    /\ outcome = "thrown"
    /\ error.section = 2

\* The external calls of section i have been issued in the running call.
Issued(i) == translateCall[i] # "idle"

\* C26: sections are admitted in input order: the calls of a section are
\* issued only when those of every earlier section have been; and a section
\* that had to wait, the limiter being full, is admitted only after a section
\* in flight has settled, by fulfilment or by rejection.
C26_AdmittedInInputOrder ==
    [][/\ \A i, j \in Sections' : (i < j /\ Issued(j)') => Issued(i)'
       /\ \A j \in Sections :
             (taskState[j] = "queued" /\ taskState'[j] = "running") =>
                 /\ \A i \in Sections : i < j => Issued(i)
                 /\ Issued(j)'
                 /\ j > concurrencyLimit => Len(settleOrder) >= j - concurrencyLimit
                 /\ Cardinality(InFlight) < concurrencyLimit]_vars

\* C26 witness: the second section of a book was admitted, under limit 1,
\* after the first one was rejected.
C26_Witness ==
    /\ N = 2
    /\ concurrencyLimit = 1
    /\ taskState = <<"rejected", "running">>
    /\ Issued(2)
    /\ settleOrder = <<1>>

\* Progress depends on whether a call completes, not on what it answers:
\* one answer of each service is enough here.
OneServiceData == {d \in ServiceData : d.moderation = NoModeration}
OneModerationOutput == {m \in ModerationOutputs : ~m.flagged}

\* One of the two external calls of section i completes.
TranslateCompletes(i) ==
    \/ \E ok \in BOOLEAN, data \in OneServiceData : TranslateReturns(i, ok, data)
    \/ TranslateThrows(i)

ModerationCompletes(i) ==
    \/ \E m \in OneModerationOutput : ModerationReturns(i, m)
    \/ ModerationThrows(i)

NextPipelineFair ==
    \/ StartRun
    \/ \E i \in 1..MaxSections : Admit(i)
    \/ \E i \in 1..MaxSections : TranslateCompletes(i)
    \/ \E i \in 1..MaxSections : ModerationCompletes(i)

\* The pipeline under its scheduling: the limiter starts a queued section as
\* soon as a slot is free (it does so in the job that follows the settling
\* of a task), and every external call that was issued completes.
FairPipeline ==
    /\ \A i \in 1..MaxSections : WF_vars(Admit(i))
    /\ \A i \in 1..MaxSections : WF_vars(TranslateCompletes(i))
    /\ \A i \in 1..MaxSections : WF_vars(ModerationCompletes(i))

SpecPipelineFair == InitPipeline /\ [][NextPipelineFair]_vars /\ FairPipeline

\* C23: every section handed to the limiter is admitted in the end, its
\* calls being issued, provided every call that is issued completes; this
\* holds for the sections that are still queued when another section fails.
C23_EverySectionAdmitted ==
    \A i \in 1..MaxSections :
        (i \in Sections /\ taskState[i] = "queued")
            ~> (i \in Sections /\ taskState[i] = "running"
                   /\ translateCall[i] = "pending")

\* C23 witness: under limit 1 the run has failed with the first section and
\* the second one, which was queued then, is in flight.
C23_Witness ==
    /\ N = 2
    /\ concurrencyLimit = 1
    /\ outcome = "thrown"
    /\ error.section = 1
    /\ taskState[2] = "running"
    /\ translateCall[2] = "pending"

\* ------------------------------------------------------------------------
\* Structural repair and code fences
\* ------------------------------------------------------------------------
\* The value is an object that has a member named after the field.
Exposes(value, section) == value.t = "obj" /\ HasKey(value, FieldText(section))

\* C29: repairResponse follows the rule list for every parsed value and
\* field: a string or a list comes back unchanged; an object with a member
\* named after the field is unwrapped once, and once more when what was
\* unwrapped is an object with such a member again; otherwise an object with
\* one key gives that key's value; otherwise the value comes back unchanged.
\* This holds whatever is stored under the field: also "", false, 0, null.
C29_RepairFollowsRules ==
    parserStage = "repaired" =>
        LET value == parserParsed.val
            section == parserSection
            inner == Prop(value, FieldText(section))
            byRules ==
                IF value.t \in {"str", "arr"} THEN value
                ELSE IF Exposes(value, section)
                     THEN IF Exposes(inner, section)
                             THEN Prop(inner, FieldText(section))
                             ELSE inner
                ELSE IF value.t = "obj" /\ KeyCount(value) = 1 THEN value.items[1]
                ELSE value
        IN  parserRepaired = byRules

\* The values stored under the field, at the first and at the second level,
\* are ones an if (...) takes as true.
NoFalsyUnderField(value, section) ==
    /\ Exposes(value, section) => Truthy(Prop(value, FieldText(section)))
    /\ Exposes(Prop(value, FieldText(section)), section) =>
          Truthy(Prop(Prop(value, FieldText(section)), FieldText(section)))

\* C29 restricted to what the code does: the rule list is followed when no
\* value stored under the field is "", false, 0 or null.
C29_RepairFollowsRulesTruthy ==
    (parserStage = "repaired" /\ NoFalsyUnderField(parserParsed.val, parserSection)) =>
        LET value == parserParsed.val
            section == parserSection
            inner == Prop(value, FieldText(section))
            byRules ==
                IF value.t \in {"str", "arr"} THEN value
                ELSE IF Exposes(value, section)
                     THEN IF Exposes(inner, section)
                             THEN Prop(inner, FieldText(section))
                             ELSE inner
                ELSE IF value.t = "obj" /\ KeyCount(value) = 1 THEN value.items[1]
                ELSE value
        IN  parserRepaired = byRules

\* C29 witness: an object nested twice under the field was unwrapped twice.
C29_Witness ==
    /\ parserStage = "repaired"
    /\ Exposes(parserParsed.val, parserSection)
    /\ Exposes(Prop(parserParsed.val, FieldText(parserSection)), parserSection)
    /\ parserRepaired.t = "str"
    /\ parserRepaired.s = <<"n", "e", "w">>

\* The text has three backquotes in a row somewhere.
HasFence(text) ==
    \E k \in 1..(Len(text) - 2) : SubSeq(text, k, k + 2) = Fence

\* C30: code-fence invariance.  For a valid JSON value (an object keyed by
\* the field, an array, a quoted string) inside Markdown code-fence
\* delimiters and white space, the value refineSection comes to store is the
\* one it stores for the same JSON without the fence.
C30_FenceInvariance ==
    \A w \in Wrappers, json \in JsonTexts :
        parserRaw = Fenced(w, json) =>
            /\ parserStage # "failed"
            /\ parserStage = "repaired" =>
                  parserRepaired = StoredFor(json, parserSection)

\* The text has a line break right before a fence that opens with json.
OpensAfterLineBreak(text) ==
    \E k \in 1..(Len(text) - 7) : SubSeq(text, k, k + 7) = <<"\n">> \o FenceJson

\* C30 restricted to what the code does: the invariance holds when no line
\* break stands right before the opening json fence and the JSON value's own
\* text has no three backquotes in a row.
C30_FenceInvarianceNoInnerFence ==
    \A w \in Wrappers, json \in JsonTexts :
        (/\ parserRaw = Fenced(w, json)
         /\ ~OpensAfterLineBreak(parserRaw)
         /\ ~HasFence(json)) =>
            /\ parserStage # "failed"
            /\ parserStage = "repaired" =>
                  parserRepaired = StoredFor(json, parserSection)

\* C30 witness: an array in a json fence, with blanks before it and white
\* space after it, asked for keywords, came out as the array.
C30_Witness ==
    /\ parserRaw = Fenced("json fence in spaces", <<"[", "\"", "a", "\"", "]">>)
    /\ parserSection = "keywords"
    /\ parserStage = "repaired"
    /\ parserRepaired = JArr(<<JStr(<<"a">>)>>)

\* ------------------------------------------------------------------------
\* Properties of the facade
\* ------------------------------------------------------------------------
\* What the facade and its engine hold, the record of the last operation
\* left aside.
FacadeState ==
    <<facadeBook, facadeBookSummary, facadeSummary, facadeChat,
      chatSummary, initialSummary, Log, calls>>

\* C22: an operation of the facade asked for before what it needs is there
\* throws and changes nothing: refineSection and importHistory without a
\* comprehensive summary; revertToTimestamp, revertLastChange and
\* resetToInitial without an engine; getSectionSummaries and analyze without
\* a book.
C22_RefusedWithoutState ==
    [][/\ (/\ facadeLast'.op \in {"refineSection: start", "refineSection",
                                  "importHistory"}
           /\ ~facadeSummary.set) =>
             (~facadeLast'.ok /\ FacadeState' = FacadeState)
       /\ (/\ facadeLast'.op \in {"revertToTimestamp", "revertLastChange",
                                  "resetToInitial"}
           /\ ~facadeChat) =>
             (~facadeLast'.ok /\ FacadeState' = FacadeState)
       /\ (/\ facadeLast'.op \in {"getSectionSummaries", "analyze"}
           /\ facadeBook = 0) =>
             (~facadeLast'.ok /\ FacadeState' = FacadeState)]_vars

\* C22 witness: with a book analysed and no engine yet, a reset was refused.
C22_Witness ==
    /\ facadeLast.op = "resetToInitial"
    /\ ~facadeLast.ok
    /\ facadeBook # 0
    /\ facadeSummary.set
    /\ ~facadeChat

\* C36: whenever the facade has an engine, what getSummary() hands out is the
\* engine's current document, after every operation of the facade; so a
\* document given to loadSummary is the one the next refineSection refines.
C36_FacadeSummaryIsEngineCurrent ==
    facadeChat => (facadeSummary.set /\ facadeSummary.doc = chatSummary)

\* C36 restricted to what the code keeps: after an operation that went
\* through the engine and returned, the facade has the engine's document.
C36_AfterEngineOperation ==
    (/\ facadeChat
     /\ facadeLast.ok
     /\ facadeLast.op \in {"refineSection", "importHistory", "revertToTimestamp",
                           "revertLastChange", "resetToInitial"}) =>
        (facadeSummary.set /\ facadeSummary.doc = chatSummary)

\* C36 witness: a refinement went through an engine that had been made from
\* a loaded summary, and the facade has the refined document.
C36_Witness ==
    /\ facadeChat
    /\ facadeLast = FacadeDone("refineSection")
    /\ initialSummary = LoadedSummary
    /\ facadeSummary.doc = chatSummary
    /\ chatSummary # initialSummary

\* C37: analyze() analyses section summaries made from the book that is
\* loaded: after load() has replaced the book, the comprehensive summary of
\* a following analyze() is that of the new book.
C37_AnalysisOfLoadedBook ==
    (facadeLast = FacadeDone("analyze")) =>
        facadeSummary = Comprehensive(AnalysisOf(facadeBook))

\* C37 restricted to what the code does: the analysis is that of the loaded
\* book when no section summaries were kept, or those kept are of this book.
C37_AnalysisWithoutStaleSummaries ==
    [][(/\ facadeLast' = FacadeDone("analyze")
        /\ facadeBookSummary \in {0, facadeBook}) =>
           /\ facadeSummary' = Comprehensive(AnalysisOf(facadeBook))
           /\ facadeBookSummary' = facadeBook]_vars

\* C37 witness: a second book was loaded and analysed after the first one
\* had been analysed without its section summaries being kept.
C37_Witness ==
    /\ facadeLast = FacadeDone("analyze")
    /\ facadeBook = 2
    /\ facadeBookSummary = 2
    /\ facadeSummary = Comprehensive(AnalysisOf(2))
    /\ facadeChat

\* C31: the aggregated moderationCategories mapping has exactly the 13 keys
\* of the ModerationCategories interface, in every analysis, whatever keys
\* the sections' own mappings carry.
C31_AggregateHasTheFixedKeys ==
    (analyzerCall = "returned") =>
        /\ aggregatedModeration.keys = CategoryList
        /\ Prop(comprehensive, FieldText("moderationCategories")).keys
               = [k \in 1..13 |-> CategoryText(CategoryList[k])]

\* C31 restricted to what the code does: the aggregate has exactly the 13
\* keys when no section's mapping has a key outside them.
C31_FixedKeysFromKnownCategories ==
    (/\ analyzerCall = "returned"
     /\ \A i \in 1..Len(analyzerInput) :
          \A k \in 1..Len(analyzerInput[i].moderation.entries) :
             analyzerInput[i].moderation.entries[k].category \in Categories) =>
        /\ aggregatedModeration.keys = CategoryList
        /\ Prop(comprehensive, FieldText("moderationCategories")).keys
               = [k \in 1..13 |-> CategoryText(CategoryList[k])]

\* C31 witness: a book whose sections have no moderation result and a
\* mapping of one key was analysed, and the aggregate has the 13 keys.
C31_Witness ==
    /\ analyzerCall = "returned"
    /\ Len(analyzerInput) = 2
    /\ ~analyzerInput[1].moderation.present
    /\ Len(analyzerInput[2].moderation.entries) = 1
    /\ analyzerInput[2].moderation.entries[1].category = "violence"
    /\ aggregatedModeration.keys = CategoryList
    /\ aggregatedModeration.values[12]

\* C38: with moderation enabled the moderation call of every started section
\* is made; when it fails the section's task rejects and the run fails as it
\* does for a generation failure, with no BookSummary returned or stored,
\* whatever the generation calls give; a section that succeeded carries the
\* moderation service's result.
C38_ModerationFailureFailsRun ==
    enableModeration =>
        \A i \in Sections :
            /\ (taskState[i] \in {"running", "fulfilled", "rejected"}) =>
                  moderationCall[i] \in {"pending", "ok", "thrown"}
            /\ (moderationCall[i] = "thrown") =>
                  /\ taskState[i] = "rejected"
                  /\ outcome = "thrown"
                  /\ error.cause \in {"failure", "translate threw", "moderation threw"}
                  /\ ~returned.set
                  /\ summarizerSummary = summaryBefore
            /\ (taskState[i] = "fulfilled") =>
                  /\ moderationCall[i] = "ok"
                  /\ sectionResult[i].moderation = moderationData[i]

\* C38 witness: every generation call of a run of two sections succeeded, a
\* moderation call failed, and the run has failed with that error.
C38_Witness ==
    /\ enableModeration
    /\ N = 2
    /\ \A i \in Sections : translateCall[i] = "success"
    /\ moderationCall[2] = "thrown"
    /\ moderationCall[1] = "ok"
    /\ outcome = "thrown"
    /\ error.cause = "moderation threw"
    /\ error.section = 2
    /\ ~returned.set

\* C39: provided every external call that is issued returns or fails, every
\* run of summarizeSections gives its caller an outcome in the end; it is a
\* BookSummary only when the tasks of all N sections have resolved, and it
\* is the error from the moment the first task rejects, whatever other
\* sections are still in flight or queued.
C39_EveryRunDelivers ==
    /\ (outcome = "pending") ~> (outcome \in {"returned", "thrown"})
    /\ [](outcome = "returned" =>
             /\ \A i \in Sections : taskState[i] = "fulfilled"
             /\ returned = [set |-> TRUE, sections |-> sectionResult])
    /\ []((\E i \in Sections : taskState[i] = "rejected") =>
             /\ outcome = "thrown"
             /\ error.section = settleOrder[
                    CHOOSE k \in 1..Len(settleOrder) :
                        /\ taskState[settleOrder[k]] = "rejected"
                        /\ \A j \in 1..(k - 1) :
                              taskState[settleOrder[j]] # "rejected"])

\* C39 witness: under limit 1 the caller has the error of the first section
\* while the second one is still queued, no call of it being issued.
C39_Witness ==
    /\ N = 2
    /\ concurrencyLimit = 1
    /\ outcome = "thrown"
    /\ error.section = 1
    /\ taskState[1] = "rejected"
    /\ taskState[2] = "queued"
    /\ translateCall[2] = "idle"

\* ------------------------------------------------------------------------
\* The history put into a prompt
\* ------------------------------------------------------------------------
\* C32: the history slice of a refineSection call for section s is made of
\* the log's last (up to) 2 entries for s and last (up to) 3 entries for
\* other sections, each once, in the order of their timestamps; it has at
\* most 5 entries, and the log is what it was before the slice was computed.
C32_RelevantHistory ==
    \A c \in 1..Len(calls) :
        LET log == calls[c].before.log
            section == calls[c].section
            slice == calls[c].relevantHistory
            laterSame(i) == {j \in (i + 1)..Len(log) : log[j].section = section}
            laterOther(i) == {j \in (i + 1)..Len(log) : log[j].section # section}
            chosen == {i \in 1..Len(log) :
                          IF log[i].section = section
                             THEN Cardinality(laterSame(i)) < 2
                             ELSE Cardinality(laterOther(i)) < 3}
        IN  /\ Len(slice) <= 5
            /\ \A k \in 1..(Len(slice) - 1) :
                  slice[k].timestamp <= slice[k + 1].timestamp
            /\ \E at \in [1..Len(slice) -> chosen] :
                  /\ \A k \in 1..Len(slice) : slice[k] = log[at[k]]
                  /\ \A i \in chosen : \E k \in 1..Len(slice) : at[k] = i
                  /\ \A k, l \in 1..Len(slice) : at[k] = at[l] => k = l
            /\ Log = log

\* C32 witness: a call is out whose slice left out entries of both kinds:
\* the log had three entries for its section and four for the other one.
C32_Witness ==
    /\ Len(calls) = 1
    /\ Len(calls[1].relevantHistory) = 5
    /\ Cardinality({i \in 1..Len(Log) : Log[i].section = calls[1].section}) >= 3
    /\ Cardinality({i \in 1..Len(Log) : Log[i].section # calls[1].section}) >= 4
    /\ \E k \in 1..4 :
          calls[1].relevantHistory[k].timestamp
              < calls[1].relevantHistory[k + 1].timestamp

\* ------------------------------------------------------------------------
\* Overlapping calls of refineSection
\* ------------------------------------------------------------------------
\* C35: also when calls of refineSection overlap, the previousContent of
\* every entry is the value its field had right before the entry's write, and
\* the document has every completed update, so that revertLastChange gives
\* the state before the last write.
C35_OverlapKeepsPreviousContent ==
    /\ \A k \in 1..Len(Log) :
          Log[k].previousContent =
              Replay(initialSummary, SubSeq(Log, 1, k - 1))[Log[k].section]
    /\ chatSummary = Replay(initialSummary, Log)

\* C35 restricted to what the code gives: a call that completes writes an
\* entry whose previousContent is the value its field has right before the
\* write, and keeps the other fields' completed updates, when no call that
\* completed while it was suspended wrote the same field.
C35_OverlapOnOtherFields ==
    [][\A c \in 1..Len(calls) :
          (/\ calls' = RemoveAt(calls, c)
           /\ Len(Log') = Len(Log) + 1
           /\ Len(calls[c].before.log) <= Len(Log)
           /\ \A k \in (Len(calls[c].before.log) + 1)..Len(Log) :
                 Log[k].section # calls[c].section) =>
              LET written == Log'[Len(Log')]
              IN  /\ written.section = calls[c].section =>
                        /\ written.previousContent = chatSummary[written.section]
                        /\ chatSummary' = [chatSummary EXCEPT
                                              ![written.section] = written.updatedContent]]_vars

\* C35 witness: two calls for different fields overlapped; the one for
\* keywords has written its entry while the one for summary is suspended.
C35_Witness ==
    /\ Len(calls) = 1
    /\ calls[1].section = "summary"
    /\ Len(Log) = Len(calls[1].before.log) + 1
    /\ Log[Len(Log)].section = "keywords"
    /\ Log[Len(Log)].previousContent = calls[1].before.summary["keywords"]
    /\ chatSummary["keywords"] = Log[Len(Log)].updatedContent
    /\ last.op = "refineSection"
    /\ last.ok

\* ------------------------------------------------------------------------
\* Snapshots the caller keeps
\* ------------------------------------------------------------------------
\* Initial document, log and current document fit together: the current one
\* is the initial one with the entries replayed, and every entry's
\* previousContent is what the replay of the entries before it gives.
Coherent(initial, entries, current) ==
    /\ current = Replay(initial, entries)
    /\ \A k \in 1..Len(entries) :
          entries[k].previousContent =
              Replay(initial, SubSeq(entries, 1, k - 1))[entries[k].section]

\* The snapshot is a consistent triple.
ConsistentTriple(snapshot) ==
    Coherent(snapshot.initialSummary, heap[snapshot.history], snapshot.currentSummary)

\* C33: with one caller at a time, in every state reached by refineSection,
\* the reverts, reset and importHistory of snapshots exportHistory made, the
\* current document is the initial one with the log's updatedContent values
\* replayed in order; so revertLastChange gives what a replay of the
\* shortened log gives.
C33_CurrentIsReplayOfLog ==
    /\ chatSummary = Replay(initialSummary, Log)
    /\ (last.op = "revertLastChange" /\ last.ok) =>
           last.returned = Replay(initialSummary, Log)

\* C33 restricted to what the code keeps: an operation of the engine keeps
\* the replay relation (and the entries' previousContent values in line with
\* it), an import given that the snapshot handed over is still the
\* consistent triple it was when it was exported.
C33_ReplayKeptByOperations ==
    [][(/\ Coherent(initialSummary, Log, chatSummary)
        /\ (last'.op = "importHistory" /\ last'.ok) =>
               \E i \in 1..Len(snapshots) :
                   /\ chatHistory' = snapshots[i].history
                   /\ chatSummary' = snapshots[i].currentSummary
                   /\ initialSummary' = snapshots[i].initialSummary
                   /\ ConsistentTriple(snapshots[i])) =>
           /\ Coherent(initialSummary', heap'[chatHistory'], chatSummary')
           /\ (last'.op = "revertLastChange" /\ last'.ok) =>
                  last'.returned = Replay(initialSummary', heap'[chatHistory'])]_vars

\* C33 witness: the last change was reverted on an engine whose log is the
\* array of a snapshot the caller holds: the document is the replay of the
\* log that is left, and no longer the snapshot's current document.
C33_Witness ==
    /\ last.op = "revertLastChange"
    /\ last.ok
    /\ Len(snapshots) = 1
    /\ chatHistory = snapshots[1].history
    /\ initialSummary = snapshots[1].initialSummary
    /\ chatSummary = Replay(initialSummary, Log)
    /\ chatSummary # snapshots[1].currentSummary

\* C34: a snapshot the caller holds, be it one exportHistory returned or one
\* handed to importHistory, and the list getHistory returned, are not changed
\* by later operations of the engine: history and currentSummary stay what
\* they were, and the snapshot stays a consistent triple.
C34_SnapshotsAreStable ==
    [][snapshots' = snapshots =>
          \A i \in 1..Len(snapshots) :
              /\ heap'[snapshots[i].history] = heap[snapshots[i].history]
              /\ ConsistentTriple(snapshots[i]) => ConsistentTriple(snapshots[i])']_vars

\* C34 restricted to what the code keeps: the documents of a held snapshot
\* never change, and its history list changes only when the engine still
\* uses that very array and pushes an entry to it or pops one from it; an
\* engine that was reset or reverted to a timestamp has an array of its own.
C34_SnapshotsChangeOnlyThroughSharedArray ==
    [][snapshots' = snapshots =>
          \A i \in 1..Len(snapshots) :
              \/ heap'[snapshots[i].history] = heap[snapshots[i].history]
              \/ /\ chatHistory = snapshots[i].history
                 /\ chatHistory' = chatHistory
                 /\ last'.ok
                 /\ last'.op \in {"refineSection", "revertLastChange"}]_vars

\* C34 witness: the engine was reset after a snapshot was taken and refined
\* then: the held snapshot still has the history it was exported with.
C34_Witness ==
    /\ Len(snapshots) = 1
    /\ chatHistory # snapshots[1].history
    /\ Len(heap[snapshots[1].history]) = 1
    /\ ConsistentTriple(snapshots[1])
    /\ Len(Log) = 2
    /\ last.op = "refineSection"
    /\ last.ok

====
